---------------------------- MODULE Spec2Model ----------------------------
(***************************************************************************)
(* Model of src/app.py (Nebula Paw Kitchen): the multi-dog session, the    *)
(* taste-preference aggregation, the ratio normaliser and the weekly       *)
(* rotation selector.                                                      *)
(*                                                                         *)
(* Conventions                                                             *)
(*  - Python None is the string NoneVal; an optional result is a sequence  *)
(*    of length 0 (nothing) or 1 (the value).                              *)
(*  - Python floats are exact rationals [n, d] in lowest terms (float      *)
(*    rounding error is not modelled).                                     *)
(*  - Text that the code strips or formats is a sequence of tokens, so     *)
(*    that str.strip() and f"Dog {idx}" are computed, not assumed.         *)
(*  - A raised exception is a result record with err = TRUE.               *)
(***************************************************************************)
EXTENDS Integers, Sequences, FiniteSets, TLC

(***************************************************************************)
(* Bounds of the model                                                     *)
(***************************************************************************)
\* most profiles a session holds
MaxDogs == 2
\* most entries the taste log holds
MaxLog == 2
\* number of distinct values a draw of the generator can take
RngRes == 4
\* largest percentage handed to ensure_ratio_sum
MaxPct == 6
\* largest seed handed to pick_rotation_smart
MaxSeed == 6

(***************************************************************************)
(* Generic helpers                                                         *)
(***************************************************************************)
NoneVal == "<None>"

Max2(a, b) == IF a >= b THEN a ELSE b

Abs(a) == IF a < 0 THEN -a ELSE a

RECURSIVE Gcd(_, _)
Gcd(a, b) == IF b = 0 THEN a ELSE Gcd(b, a % b)

\* the rational n/d (d > 0) in lowest terms
Q(n, d) ==
    LET g == Gcd(Abs(n), d)
    IN  [n |-> n \div g, d |-> d \div g]

QInt(i) == [n |-> i, d |-> 1]
\* the sum, over the least common denominator
QAdd(a, b) ==
    LET g == Gcd(a.d, b.d)
    IN  Q(a.n * (b.d \div g) + b.n * (a.d \div g), (a.d \div g) * b.d)
\* the product, the common factors taken out before multiplying
QMul(a, b) ==
    LET g1 == Gcd(Abs(a.n), b.d)
        g2 == Gcd(Abs(b.n), a.d)
    IN  Q((a.n \div g1) * (b.n \div g2), (a.d \div g2) * (b.d \div g1))
QLe(a, b) == a.n * b.d <= b.n * a.d
QMax(a, b) == IF QLe(b, a) THEN a ELSE b

Range(s) == {s[i] : i \in 1..Len(s)}

\* f in flags
Has(flags, f) == \E i \in 1..Len(flags) : flags[i] = f

\* [x for x in s if x != y]
RECURSIVE Without(_, _)
Without(s, y) ==
    IF s = <<>> THEN <<>>
    ELSE IF Head(s) = y THEN Without(Tail(s), y)
    ELSE <<Head(s)>> \o Without(Tail(s), y)

\* list(dict.fromkeys(s)): first occurrences, in order
RECURSIVE DictFromKeys(_)
DictFromKeys(s) ==
    IF s = <<>> THEN <<>>
    ELSE <<Head(s)>> \o DictFromKeys(Without(Tail(s), Head(s)))

\* the lists of distinct elements of S, of length at most n (a multiselect's values)
RECURSIVE Picks(_, _)
Picks(S, n) ==
    IF n = 0 THEN {<<>>}
    ELSE {<<>>} \cup {<<x>> \o p : x \in S, p \in {q \in Picks(S, n - 1) : TRUE}}

NoDup(s) == \A i, j \in 1..Len(s) : s[i] = s[j] => i = j

Selections(S) == {p \in Picks(S, Cardinality(S)) : NoDup(p)}

(***************************************************************************)
(* Ingredient catalog (src/app.py build_ingredients, INGREDIENTS)          *)
(***************************************************************************)
\* a sub-catalog of build_ingredients' item list, in its order; protein_g,
\* fat_g and carbs_g are in tenths of a gram
Item(nm, cat, kcal, protein, fat, carbs) ==
    [name |-> nm, category |-> cat, kcal_per_100g |-> kcal,
     protein_g |-> protein, fat_g |-> fat, carbs_g |-> carbs]

FullCatalog ==
    << Item("Chicken (lean, cooked)", "Meat", 165, 310, 36, 0),
       Item("Turkey (lean, cooked)", "Meat", 150, 290, 20, 0),
       Item("Beef (lean, cooked)", "Meat", 200, 260, 100, 0),
       Item("Pumpkin (cooked)", "Veg", 26, 10, 1, 65),
       Item("Carrot (cooked)", "Veg", 35, 8, 2, 80),
       Item("Sweet Potato (cooked)", "Carb", 86, 16, 1, 200),
       Item("Brown Rice (cooked)", "Carb", 123, 27, 10, 256),
       Item("Blueberries (small portions)", "Treat", 57, 7, 3, 145) >>

RECURSIVE DropCategory(_, _)
DropCategory(items, cat) ==
    IF items = <<>> THEN <<>>
    ELSE IF Head(items).category = cat THEN DropCategory(Tail(items), cat)
    ELSE <<Head(items)>> \o DropCategory(Tail(items), cat)

\* the catalog as built, and the catalog with one category left without items
Catalogs ==
    {FullCatalog} \cup {DropCategory(FullCatalog, c) : c \in {"Meat", "Veg", "Carb"}}

VARIABLES
    INGREDIENTS,      \* the catalog: records [name, category] in insertion order
    dogs,             \* st.session_state.dogs
    active_dog_id,    \* st.session_state.active_dog_id
    taste_log,        \* st.session_state.taste_log
    sel_options,      \* options the "Select dog profile" box was last rendered with
    sel_index,        \* position selected in that box (1-based)
    pc,               \* pick_rotation_smart: "idle", "loop", "returned" or "raised"
    args,             \* pick_rotation_smart: the arguments of the call
    ui,               \* planner toggles the arguments were derived from
    meat_pool,        \* pick_rotation_smart locals
    veg_pool,
    carb_pool,
    rng,
    plan,
    last_meat,
    last_meat2,
    last_veg,
    last_veg2,
    ret,              \* value returned by the call: <<>> or <<plan>>
    first,            \* outcome of the previous call with the same arguments
    ratio_args,       \* ensure_ratio_sum: arguments of the last call
    ratio_ret,        \* ensure_ratio_sum: its outcome
    energy_args,      \* compute_daily_energy: arguments of the call
    energy_ret,       \* compute_daily_energy: its outcome, <<>> before the call
    gen_pc,           \* planner "Generate" run: "off", "rotating", "done" or "raised"
    gen,              \* planner locals of the run (targets, fruit rotation)
    plan_df,          \* rows of the weekly plan table
    shopping_df       \* rows of the weekly shopping list

sessVars == <<dogs, active_dog_id, taste_log, sel_options, sel_index>>

rotVars ==
    <<pc, args, ui, meat_pool, veg_pool, carb_pool, rng, plan,
      last_meat, last_meat2, last_veg, last_veg2, ret, first>>

ratioVars == <<ratio_args, ratio_ret>>

energyVars == <<energy_args, energy_ret>>

planVars == <<gen_pc, gen, plan_df, shopping_df>>

vars == <<INGREDIENTS, sessVars, rotVars, ratioVars, energyVars, planVars>>

RECURSIVE NamesOf(_, _)
NamesOf(items, cat) ==
    IF items = <<>> THEN <<>>
    ELSE IF Head(items).category = cat
         THEN <<Head(items).name>> \o NamesOf(Tail(items), cat)
         ELSE NamesOf(Tail(items), cat)

filter_ingredients_by_category(cat) == NamesOf(INGREDIENTS, cat)

(***************************************************************************)
(* Multi-dog session                                                       *)
(***************************************************************************)
Digits == <<"1", "2", "3", "4", "5", "6", "7", "8", "9">>

\* f"dog-{n}"
DogId(n) == <<"dog-", Digits[n]>>

\* str.strip() on a text of tokens: leading and trailing blanks removed
RECURSIVE LStrip(_)
LStrip(t) == IF t # <<>> /\ Head(t) = " " THEN LStrip(Tail(t)) ELSE t

RECURSIVE RStrip(_)
RStrip(t) ==
    IF t # <<>> /\ t[Len(t)] = " " THEN RStrip(SubSeq(t, 1, Len(t) - 1)) ELSE t

Strip(t) == RStrip(LStrip(t))

\* variant: the profile ignores the id it is given
default_dog_profile_fixed_id(dog_id) ==
    [id |-> DogId(1),
     name |-> <<>>,
     breed |-> "Mixed Breed / Unknown",
     age_years |-> 30,
     weight_kg |-> 100,
     neutered |-> TRUE,
     activity |-> "Normal",
     special_flags |-> <<"None">>,
     meals_per_day |-> 2,
     assumed_kcal_per_g |-> 135]

\* ages and weights in tenths, energy density in hundredths
default_dog_profile(dog_id) ==
    [id |-> dog_id,
     name |-> <<>>,
     breed |-> "Mixed Breed / Unknown",
     age_years |-> 30,
     weight_kg |-> 100,
     neutered |-> TRUE,
     activity |-> "Normal",
     special_flags |-> <<"None">>,
     meals_per_day |-> 2,
     assumed_kcal_per_g |-> 135]

dog_display_name(d, idx) ==
    LET nm == Strip(d.name)
    IN  IF nm # <<>> THEN nm ELSE <<"Dog", " ", Digits[idx]>>

DogLabels(ds) == [i \in 1..Len(ds) |-> dog_display_name(ds[i], i)]

\* label_to_id[label]: a dict comprehension, so the last profile with the label wins
LabelToId(ds, label) ==
    LET labels == DogLabels(ds)
        last == CHOOSE i \in 1..Len(ds) :
                    /\ labels[i] = label
                    /\ \A j \in 1..Len(ds) : labels[j] = label => j <= i
    IN  ds[last].id

\* get_active_dog(): the pointer is reset to the first profile when it dangles
GetActiveDogId(ds, a) ==
    IF \E i \in 1..Len(ds) : ds[i].id = a THEN a ELSE ds[1].id

\* The unkeyed selectbox is a new widget (back at index=0) whenever its options
\* differ from those of the previous run; otherwise it keeps the chosen position.
SelectboxIndex(ds, chosen) ==
    IF DogLabels(ds) = sel_options THEN chosen ELSE 1

\* lines 854-859, run at the top of every script run
ActiveAfterSelect(ds, chosen) ==
    LET labels == DogLabels(ds)
        selected_label == labels[SelectboxIndex(ds, chosen)]
    IN  GetActiveDogId(ds, LabelToId(ds, selected_label))

\* the "None" sentinel is dropped when other flags are selected with it
NormaliseFlags(flags) ==
    IF (\E i \in 1..Len(flags) : flags[i] = "None") /\ Len(flags) > 1
    THEN Without(flags, "None")
    ELSE flags

\* variant: an empty selection is stored as it is
FlagsOrNone_keep_empty(flags) == flags

\* `flags if flags else ["None"]`
FlagsOrNone(flags) == IF flags # <<>> THEN flags ELSE <<"None">>

\* the dict of editable fields built from a form's widget values
FormUpdates(f) ==
    [name |-> Strip(f.name),
     breed |-> f.breed,
     age_years |-> f.age_years,
     weight_kg |-> f.weight_kg,
     neutered |-> f.neutered,
     activity |-> f.activity,
     special_flags |-> FlagsOrNone(NormaliseFlags(f.special_flags)),
     meals_per_day |-> f.meals_per_day,
     assumed_kcal_per_g |-> f.assumed_kcal_per_g]

\* d.copy(); d.update(updates)
DictUpdate(d, updates) ==
    [k \in DOMAIN d |-> IF k \in DOMAIN updates THEN updates[k] ELSE d[k]]

update_active_dog(ds, a, updates) ==
    IF \E i \in 1..Len(ds) : ds[i].id = a
    THEN LET i == CHOOSE k \in 1..Len(ds) :
                      ds[k].id = a /\ \A j \in 1..(k - 1) : ds[j].id # a
         IN  [ds EXCEPT ![i] = DictUpdate(ds[i], updates)]
    ELSE ds

\* variant: the id is numbered by the profiles there are, not one more
NewDogId_reuse(ds) == DogId(Len(ds))

NewDogId(ds) == DogId(Len(ds) + 1)

\* "Select dog profile": the user picks a displayed option; the script reruns
SelectProfile(i) ==
    /\ i \in 1..Len(sel_options)
    /\ sel_index' = SelectboxIndex(dogs, i)
    /\ sel_options' = DogLabels(dogs)
    /\ active_dog_id' = ActiveAfterSelect(dogs, i)
    /\ UNCHANGED <<dogs, taste_log, INGREDIENTS, rotVars, ratioVars, energyVars, planVars>>

\* "Create profile" button
CreateProfile(f) ==
    /\ Len(dogs) < MaxDogs
    /\ sel_index' = SelectboxIndex(dogs, sel_index)
    /\ sel_options' = DogLabels(dogs)
    /\ LET new_id == NewDogId(dogs)
           d == DictUpdate(default_dog_profile(new_id), FormUpdates(f))
       IN  /\ dogs' = Append(dogs, d)
           /\ active_dog_id' = new_id
    /\ UNCHANGED <<taste_log, INGREDIENTS, rotVars, ratioVars, energyVars, planVars>>

\* "Save profile changes" button
SaveProfile(f) ==
    /\ sel_index' = SelectboxIndex(dogs, sel_index)
    /\ sel_options' = DogLabels(dogs)
    /\ LET a == ActiveAfterSelect(dogs, sel_index)
       IN  /\ active_dog_id' = a
           /\ dogs' = update_active_dog(dogs, a, FormUpdates(f))
    /\ UNCHANGED <<taste_log, INGREDIENTS, rotVars, ratioVars, energyVars, planVars>>

PrefLabels == {"Dislike", "Neutral", "Like", "Love"}

SkipToNone(x) == IF x = "(skip)" THEN NoneVal ELSE x

\* variant: the new entry is put in front
AppendEntry_front(log, entry) == <<entry>> \o log

AppendEntry(log, entry) == Append(log, entry)

\* "Add taste entry" button.  The display-only snapshot columns of an entry
\* (Dog Name, Breed, Age, Weight, Notes) are read by no computation and are
\* left out of the entry.
AddTasteEntry(log_meat, log_veg, love_level) ==
    /\ Len(taste_log) < MaxLog
    /\ log_meat \in {"(skip)"} \cup Range(filter_ingredients_by_category("Meat"))
    /\ log_veg \in {"(skip)"} \cup Range(filter_ingredients_by_category("Veg"))
    /\ sel_index' = SelectboxIndex(dogs, sel_index)
    /\ sel_options' = DogLabels(dogs)
    /\ LET a == ActiveAfterSelect(dogs, sel_index)
           entry == [dog_id |-> a,
                     Protein |-> SkipToNone(log_meat),
                     Veg |-> SkipToNone(log_veg),
                     Preference |-> love_level]
       IN  /\ active_dog_id' = a
           /\ taste_log' = AppendEntry(taste_log, entry)
    /\ UNCHANGED <<dogs, INGREDIENTS, rotVars, ratioVars, energyVars, planVars>>

(***************************************************************************)
(* Taste learning (get_preference_maps)                                    *)
(***************************************************************************)
pref_score_from_label(p) ==
    CASE p = "Dislike" -> 0
      [] p = "Neutral" -> 1
      [] p = "Like" -> 2
      [] p = "Love" -> 3
      [] OTHER -> 1

\* variant: the log is not filtered by dog
EntriesOfDog_all(log, dog_id) == log

\* [e for e in taste_log if e.get("dog_id") == dog_id]
RECURSIVE EntriesOfDog(_, _)
EntriesOfDog(log, dog_id) ==
    IF log = <<>> THEN <<>>
    ELSE IF Head(log).dog_id = dog_id
         THEN <<Head(log)>> \o EntriesOfDog(Tail(log), dog_id)
         ELSE EntriesOfDog(Tail(log), dog_id)

\* variant: rows without a value in the column are kept
DropNa_kept(rows, col) == rows
\* df.dropna(subset=[col])
RECURSIVE DropNa(_, _)
DropNa(rows, col) ==
    IF rows = <<>> THEN <<>>
    ELSE IF Head(rows)[col] = NoneVal THEN DropNa(Tail(rows), col)
    ELSE <<Head(rows)>> \o DropNa(Tail(rows), col)

\* sum and count of the scores of the rows of one group, accumulated row by row
RECURSIVE GroupSumCount(_, _, _, _)
GroupSumCount(rows, col, key, acc) ==
    IF rows = <<>> THEN acc
    ELSE LET r == Head(rows)
             nxt == IF r[col] = key
                    THEN [sum |-> acc.sum + pref_score_from_label(r.Preference),
                          count |-> acc.count + 1]
                    ELSE acc
         IN  GroupSumCount(Tail(rows), col, key, nxt)

\* sub.groupby(col)["score"].mean().to_dict()
GroupMean(rows, col) ==
    LET sub == DropNa(rows, col)
        keys == {sub[i][col] : i \in 1..Len(sub)}
    IN  [k \in keys |->
            LET sc == GroupSumCount(sub, col, k, [sum |-> 0, count |-> 0])
            IN  Q(sc.sum, sc.count)]

EmptyMap == [k \in {} |-> QInt(0)]

get_preference_maps(dog_id) ==
    LET entries == EntriesOfDog(taste_log, dog_id)
    IN  IF entries = <<>>
        THEN [protein |-> EmptyMap, veg |-> EmptyMap]
        ELSE [protein |-> GroupMean(entries, "Protein"),
              veg |-> GroupMean(entries, "Veg")]

(***************************************************************************)
(* Ratio normalisation (ensure_ratio_sum)                                  *)
(***************************************************************************)
\* round(num / den) for den > 0: Python rounds halves to the even neighbour
PyRound(num, den) ==
    LET f == num \div den
        r == num - f * den
    IN  IF 2 * r < den THEN f
        ELSE IF 2 * r > den THEN f + 1
        ELSE IF f % 2 = 0 THEN f ELSE f + 1

\* round(pct / total * 100); the division raises ZeroDivisionError when total = 0
RoundShare(pct, total) ==
    IF total > 0 THEN PyRound(100 * pct, total) ELSE PyRound(-100 * pct, -total)

\* variant: a triple that sums to 100 comes back with veg and carb exchanged
ensure_ratio_sum_swapped(meat_pct, veg_pct, carb_pct) ==
    LET total == meat_pct + veg_pct + carb_pct
    IN  IF total = 100 THEN [err |-> FALSE, val |-> <<meat_pct, carb_pct, veg_pct>>]
        ELSE IF total = 0 THEN [err |-> TRUE, val |-> <<>>]
        ELSE LET meat == RoundShare(meat_pct, total)
                 veg == RoundShare(veg_pct, total)
                 carb == Max2(0, 100 - meat - veg)
                 meat2 == IF meat + veg + carb # 100
                          THEN Max2(0, meat + (100 - (meat + veg + carb)))
                          ELSE meat
             IN  [err |-> FALSE, val |-> <<meat2, veg, carb>>]

ensure_ratio_sum(meat_pct, veg_pct, carb_pct) ==
    LET total == meat_pct + veg_pct + carb_pct
    IN  IF total = 100 THEN [err |-> FALSE, val |-> <<meat_pct, veg_pct, carb_pct>>]
        ELSE IF total = 0 THEN [err |-> TRUE, val |-> <<>>]
        ELSE LET meat == RoundShare(meat_pct, total)
                 veg == RoundShare(veg_pct, total)
                 carb == Max2(0, 100 - meat - veg)
                 meat2 == IF meat + veg + carb # 100
                          THEN Max2(0, meat + (100 - (meat + veg + carb)))
                          ELSE meat
             IN  [err |-> FALSE, val |-> <<meat2, veg, carb>>]

\* percentages handed to the normaliser: small values and the parts of a preset
PctInputs == (0..MaxPct) \cup {15, 35, 50}

CallEnsureRatioSum(m, v, c) ==
    /\ ratio_args' = <<m, v, c>>
    /\ ratio_ret' = <<ensure_ratio_sum(m, v, c)>>
    /\ UNCHANGED <<INGREDIENTS, sessVars, rotVars, energyVars, planVars>>

(***************************************************************************)
(* Life stage and energy (age_to_life_stage, calc_rer, mer_factor,         *)
(* compute_daily_energy).  Ages and weights are in tenths.                 *)
(***************************************************************************)
age_to_life_stage(age_years) ==
    IF age_years < 10 THEN "Puppy"
    ELSE IF age_years < 70 THEN "Adult"
    ELSE "Senior"

\* 70 * weight_kg ** 0.75, exact: defined for the weights k^4 kg (1.0, 16.0,
\* 81.0 kg), whose power 0.75 is the integer k^3
calc_rer(weight_kg) ==
    LET k == CHOOSE r \in 1..3 : 10 * r * r * r * r = weight_kg
    IN  QInt(70 * k * k * k)

\* variant: the neuter status is not looked at for puppies
mer_factor_puppy_flat(life_stage, activity, neutered) ==
    LET base == IF life_stage = "Puppy" THEN Q(22, 10)
                ELSE IF life_stage = "Senior"
                THEN (IF neutered THEN Q(13, 10) ELSE Q(14, 10))
                ELSE (IF neutered THEN Q(16, 10) ELSE Q(18, 10))
        activity_boost == CASE activity = "Low" -> Q(9, 10)
                            [] activity = "Normal" -> QInt(1)
                            [] activity = "High" -> Q(12, 10)
                            [] activity = "Athletic/Working" -> Q(135, 100)
                            [] OTHER -> QInt(1)
    IN  QMul(base, activity_boost)

mer_factor(life_stage, activity, neutered) ==
    LET base == IF life_stage = "Puppy"
                THEN (IF neutered THEN Q(22, 10) ELSE Q(24, 10))
                ELSE IF life_stage = "Senior"
                THEN (IF neutered THEN Q(13, 10) ELSE Q(14, 10))
                ELSE (IF neutered THEN Q(16, 10) ELSE Q(18, 10))
        activity_boost == CASE activity = "Low" -> Q(9, 10)
                            [] activity = "Normal" -> QInt(1)
                            [] activity = "High" -> Q(12, 10)
                            [] activity = "Athletic/Working" -> Q(135, 100)
                            [] OTHER -> QInt(1)
    IN  QMul(base, activity_boost)

\* " ".join(parts), as a text of tokens
RECURSIVE JoinSpace(_)
JoinSpace(parts) ==
    IF parts = <<>> THEN <<>>
    ELSE IF Len(parts) = 1 THEN <<parts[1]>>
    ELSE <<parts[1], " ">> \o JoinSpace(Tail(parts))

\* variant: the kidney-concern flag is not taken into account
KidneyAdj_ignored(special_flags) == QInt(1)

\* the factor contributed by the kidney-concern flag
KidneyAdj(special_flags) ==
    IF Has(special_flags, "Kidney concern (vet-managed)") THEN Q(95, 100) ELSE QInt(1)

compute_daily_energy(weight_kg, age_years, activity, neutered, special_flags) ==
    LET stage == age_to_life_stage(age_years)
        rer == calc_rer(weight_kg)
        mer == QMul(rer, mer_factor(stage, activity, neutered))
        loss == Has(special_flags, "Overweight / Weight loss goal")
        panc == Has(special_flags, "Pancreatitis risk / Needs lower fat")
        kidney == Has(special_flags, "Kidney concern (vet-managed)")
        picky == Has(special_flags, "Very picky eater")
        adj1 == IF loss THEN QMul(QInt(1), Q(85, 100)) ELSE QInt(1)
        adj2 == IF panc THEN QMul(adj1, Q(95, 100)) ELSE adj1
        adj == QMul(adj2, KidneyAdj(special_flags))
        rationale ==
            (IF loss THEN <<"Weight-loss adjusted target.">> ELSE <<>>)
            \o (IF panc THEN <<"Fat-sensitive conservative target.">> ELSE <<>>)
            \o (IF kidney
                THEN <<"Energy conservative; protein strategy must be vet-guided.">>
                ELSE <<>>)
            \o (IF picky THEN <<"Use palatability tactics & stronger rotation.">>
                ELSE <<>>)
        explanation ==
            <<stage>> \o (IF rationale # <<>> THEN <<" | ">> \o JoinSpace(rationale)
                          ELSE <<>>)
    IN  [rer |-> rer, mer |-> mer, mer_adj |-> QMul(mer, adj),
         explanation |-> explanation]

\* daily_kcal / assumed_kcal_per_g, the density in hundredths of kcal per gram
estimate_food_grams_from_energy(daily_kcal, assumed_kcal_per_g) ==
    QMul(daily_kcal, Q(100, assumed_kcal_per_g))

\* variant: every category gets the meat share
grams_for_day_meat_share(total_grams, meat_pct, veg_pct, carb_pct) ==
    <<QMul(total_grams, Q(meat_pct, 100)),
      QMul(total_grams, Q(meat_pct, 100)),
      QMul(total_grams, Q(meat_pct, 100))>>

grams_for_day(total_grams, meat_pct, veg_pct, carb_pct) ==
    <<QMul(total_grams, Q(meat_pct, 100)),
      QMul(total_grams, Q(veg_pct, 100)),
      QMul(total_grams, Q(carb_pct, 100))>>

CallComputeDailyEnergy ==
    /\ energy_ret = <<>>
    /\ energy_ret' = <<compute_daily_energy(energy_args.weight_kg, energy_args.age_years,
                                            energy_args.activity, energy_args.neutered,
                                            energy_args.special_flags)>>
    /\ UNCHANGED <<energy_args, INGREDIENTS, sessVars, rotVars, ratioVars, planVars>>

(***************************************************************************)
(* Recommender (recommend_ingredients)                                     *)
(***************************************************************************)
\* variant: names are kept whether or not the catalog has them
RECURSIVE Dedupe_unchecked(_, _)
Dedupe_unchecked(lst, seen) ==
    IF lst = <<>> THEN <<>>
    ELSE LET x == Head(lst)
         IN  IF x \notin seen
             THEN <<x>> \o Dedupe_unchecked(Tail(lst), seen \cup {x})
             ELSE Dedupe_unchecked(Tail(lst), seen)

\* dedupe(lst): names of the catalog, first occurrences only
RECURSIVE Dedupe(_, _)
Dedupe(lst, seen) ==
    IF lst = <<>> THEN <<>>
    ELSE LET x == Head(lst)
         IN  IF (\E i \in 1..Len(INGREDIENTS) : INGREDIENTS[i].name = x) /\ x \notin seen
             THEN <<x>> \o Dedupe(Tail(lst), seen \cup {x})
             ELSE Dedupe(Tail(lst), seen)

recommend_ingredients(stage, special_flags) ==
    LET base_meats == <<"Turkey (lean, cooked)", "White Fish (cod, cooked)",
                        "Salmon (cooked)", "Egg (cooked)", "Lamb (lean, cooked)">>
        base_vegs == <<"Pumpkin (cooked)", "Zucchini (cooked)", "Green Beans (cooked)",
                       "Carrot (cooked)", "Bell Pepper (red, cooked)">>
        base_carbs == <<"Sweet Potato (cooked)", "Brown Rice (cooked)",
                        "Oats (cooked)", "Quinoa (cooked)">>
        base_treats == <<"Blueberries (small portions)", "Apple (peeled, no seeds)",
                         "Strawberries (small portions)">>
        meats1 == base_meats \o
                  (IF stage = "Puppy"
                   THEN <<"Chicken (lean, cooked)", "Beef (lean, cooked)">>
                   ELSE IF stage = "Senior"
                   THEN <<"White Fish (cod, cooked)", "Salmon (cooked)">>
                   ELSE <<>>)
        carbs1 == base_carbs \o
                  (IF stage = "Puppy" THEN <<"White Rice (cooked)">> ELSE <<>>)
        vegs1 == base_vegs \o
                 (IF stage = "Puppy" THEN <<"Pumpkin (cooked)">>
                  ELSE IF stage = "Senior"
                  THEN <<"Pumpkin (cooked)", "Zucchini (cooked)">>
                  ELSE <<>>)
        sens == Has(special_flags, "Sensitive stomach")
        meats2 == meats1 \o
                  (IF sens THEN <<"Turkey (lean, cooked)", "White Fish (cod, cooked)">>
                   ELSE <<>>)
        vegs2 == vegs1 \o (IF sens THEN <<"Pumpkin (cooked)">> ELSE <<>>)
        carbs2 == carbs1 \o
                  (IF sens THEN <<"White Rice (cooked)", "Oats (cooked)">> ELSE <<>>)
        skin == Has(special_flags, "Skin/coat concern")
        meats3 == meats2 \o
                  (IF skin THEN <<"Salmon (cooked)", "Sardines (cooked, deboned)">>
                   ELSE <<>>)
        treats3 == base_treats \o
                   (IF skin THEN <<"Blueberries (small portions)">> ELSE <<>>)
        over == Has(special_flags, "Overweight / Weight loss goal")
        meats4 == meats3 \o
                  (IF over THEN <<"Turkey (lean, cooked)", "White Fish (cod, cooked)",
                                  "Rabbit (cooked)">>
                   ELSE <<>>)
        vegs4 == vegs2 \o
                 (IF over THEN <<"Green Beans (cooked)", "Zucchini (cooked)",
                                 "Cauliflower (cooked)">>
                  ELSE <<>>)
        meats5 == IF Has(special_flags, "Pancreatitis risk / Needs lower fat")
                  THEN Without(Without(Without(meats4, "Salmon (cooked)"),
                                       "Duck (lean, cooked)"),
                               "Sardines (cooked, deboned)")
                       \o <<"Turkey (lean, cooked)", "White Fish (cod, cooked)">>
                  ELSE meats4
    IN  [Meat |-> Dedupe(meats5, {}), Veg |-> Dedupe(vegs4, {}),
         Carb |-> Dedupe(carbs2, {}), Treat |-> Dedupe(treats3, {})]

(***************************************************************************)
(* The seeded generator (random.Random)                                    *)
(***************************************************************************)
\* seed used when the caller passes none
DefaultSeed == 42

\* The generator is a fixed function of its seed: the k-th value drawn from
\* Random(seed), a number in 0..RngRes-1 standing for the float value/RngRes.
\* The streams are the arithmetic progressions modulo RngRes: constant for the
\* seeds below RngRes, stepping by seed \div RngRes for the others.
Stream(seed, k) == ((seed % RngRes) + (seed \div RngRes) * k) % RngRes

\* variant: the generator is kept between calls, so a call goes on from where
\* the previous one stopped
NewRandom_kept(seed) ==
    [seed |-> IF seed = <<>> THEN DefaultSeed ELSE seed[1], pos |-> rng.pos]

\* random.Random(seed if seed is not None else 42); seed is <<>> or <<n>>
NewRandom(seed) ==
    [seed |-> IF seed = <<>> THEN DefaultSeed ELSE seed[1], pos |-> 0]

RngAdvance(g) == [g EXCEPT !.pos = @ + 1]

\* rng.random()
rng_random(g) ==
    [err |-> FALSE, val |-> Q(Stream(g.seed, g.pos), RngRes), rng |-> RngAdvance(g)]

\* variant: an empty sequence yields a placeholder
rng_choice_placeholder(g, seq) ==
    IF seq = <<>>
    THEN [err |-> FALSE, val |-> "-", rng |-> g]
    ELSE [err |-> FALSE,
          val |-> seq[((Stream(g.seed, g.pos) * Len(seq)) \div RngRes) + 1],
          rng |-> RngAdvance(g)]

\* rng.choice(seq): IndexError on an empty sequence
rng_choice(g, seq) ==
    IF seq = <<>>
    THEN [err |-> TRUE, val |-> NoneVal, rng |-> g]
    ELSE [err |-> FALSE,
          val |-> seq[((Stream(g.seed, g.pos) * Len(seq)) \div RngRes) + 1],
          rng |-> RngAdvance(g)]

(***************************************************************************)
(* Weighted choice and the rotation selector                               *)
(***************************************************************************)
\* sum(max(0.0, w) for w in weights)
RECURSIVE TotalWeight(_)
TotalWeight(weights) ==
    IF weights = <<>> THEN QInt(0)
    ELSE QAdd(QMax(QInt(0), Head(weights)), TotalWeight(Tail(weights)))

\* variant: an item is taken only when its accumulated weight exceeds r
RECURSIVE WalkWeights_strict(_, _, _, _, _)
WalkWeights_strict(items, weights, r, acc, i) ==
    IF i > Len(items) THEN items[Len(items)]
    ELSE LET acc2 == QAdd(acc, QMax(QInt(0), weights[i]))
         IN  IF ~QLe(acc2, r) THEN items[i]
             ELSE WalkWeights_strict(items, weights, r, acc2, i + 1)
\* the loop of weighted_choice: the first item whose accumulated weight reaches r
RECURSIVE WalkWeights(_, _, _, _, _)
WalkWeights(items, weights, r, acc, i) ==
    IF i > Len(items) THEN items[Len(items)]
    ELSE LET acc2 == QAdd(acc, QMax(QInt(0), weights[i]))
         IN  IF QLe(r, acc2) THEN items[i]
             ELSE WalkWeights(items, weights, r, acc2, i + 1)

weighted_choice(g, items, weights) ==
    IF items = <<>> THEN [err |-> TRUE, val |-> NoneVal, rng |-> g]
    ELSE IF Len(items) # Len(weights) THEN [err |-> TRUE, val |-> NoneVal, rng |-> g]
    ELSE LET total == TotalWeight(weights)
         IN  IF QLe(total, QInt(0)) THEN rng_choice(g, items)
             ELSE LET d == rng_random(g)
                      r == QMul(d.val, total)
                  IN  [err |-> FALSE,
                       val |-> WalkWeights(items, weights, r, QInt(0), 1),
                       rng |-> d.rng]

\* variant: the learned score itself is the weight
taste_weight_raw(name, m, use_taste_weights) ==
    IF ~use_taste_weights THEN QInt(1)
    ELSE IF name \notin DOMAIN m THEN QInt(1)
    ELSE m[name]

\* variant: the learned score is used whether or not weighting is switched on
taste_weight_always(name, m, use_taste_weights) ==
    IF name \notin DOMAIN m THEN QInt(1)
    ELSE QMax(Q(1, 4), QAdd(Q(1, 4), m[name]))
\* taste_weight(name, m), with the enclosing call's use_taste_weights
taste_weight(name, m, use_taste_weights) ==
    IF ~use_taste_weights THEN QInt(1)
    ELSE IF name \notin DOMAIN m THEN QInt(1)
    ELSE QMax(Q(1, 4), QAdd(Q(1, 4), m[name]))

\* truth value of an Optional[str]
Truthy(x) == x # NoneVal /\ x # ""

\* variant: the filtered list is taken even when it is empty
KeepIfNonEmpty_unguarded(filtered, candidates) == filtered

\* `if filtered: candidates = filtered`
KeepIfNonEmpty(filtered, candidates) ==
    IF filtered # <<>> THEN filtered ELSE candidates

\* candidates after the last-two-equal rule
CandidatesAfterPair(pool, last, last2) ==
    IF Truthy(last) /\ Truthy(last2) /\ last = last2
    THEN KeepIfNonEmpty(Without(pool, last), pool)
    ELSE pool

\* variant: the previous pick is dropped only if more than one candidate remains
Candidates_keep_pair(pool, last, last2) ==
    LET c == CandidatesAfterPair(pool, last, last2)
    IN  IF Truthy(last) /\ Len(Without(c, last)) > 1
        THEN Without(c, last)
        ELSE c
\* variant: neither anti-repeat rule is applied
Candidates_unfiltered(pool, last, last2) == pool

\* variant: the previous-day rule is left out
Candidates_skip_prev(pool, last, last2) == CandidatesAfterPair(pool, last, last2)
\* candidates after both anti-repeat rules
Candidates(pool, last, last2) ==
    LET c == CandidatesAfterPair(pool, last, last2)
    IN  IF Truthy(last) /\ Len(c) > 1
        THEN KeepIfNonEmpty(Without(c, last), c)
        ELSE c

\* [taste_weight(x, taste_map) for x in candidates]
CandidateWeights(candidates, taste_map, use_taste_weights) ==
    [i \in 1..Len(candidates) |->
        taste_weight(candidates[i], taste_map, use_taste_weights)]

\* choose(pool, last, last2, taste_map), with the enclosing call's rng,
\* all_meats and use_taste_weights
choose(g, pool, last, last2, taste_map, use_taste_weights) ==
    IF pool = <<>> THEN rng_choice(g, filter_ingredients_by_category("Meat"))
    ELSE LET candidates == Candidates(pool, last, last2)
             weights == CandidateWeights(candidates, taste_map, use_taste_weights)
         IN  weighted_choice(g, candidates, weights)

\* variant: the three lists are concatenated without removing duplicates
BuildPool_concat(pantry, recs, all, allow_new) ==
    IF allow_new THEN pantry \o recs \o all
    ELSE IF pantry # <<>> THEN pantry ELSE all
\* the pool of one category
BuildPool(pantry, recs, all, allow_new) ==
    IF allow_new THEN DictFromKeys(pantry \o recs \o all)
    ELSE IF pantry # <<>> THEN pantry ELSE all

\* variant: pantry-only mode is not taken into account
EffectiveAllowNew_ignore_pantry_only(allow_new, pantry_only) == allow_new

\* effective_allow_new of the planner
EffectiveAllowNew(allow_new, pantry_only) == allow_new /\ ~pantry_only

\* number of days the planner asks for
Days == 7

\* variant: the loop stops one day early
LoopDone_early(n, days) == n >= days - 1

\* `for _ in range(days)` is exhausted after n iterations
LoopDone(n, days) == n >= days

\* entry of pick_rotation_smart: generator, pools, empty plan
EnterCall(a) ==
    /\ args' = a
    /\ rng' = NewRandom(a.seed)
    /\ meat_pool' = BuildPool(a.pantry_meats, a.recommendations.Meat,
                              filter_ingredients_by_category("Meat"), a.allow_new)
    /\ veg_pool' = BuildPool(a.pantry_vegs, a.recommendations.Veg,
                             filter_ingredients_by_category("Veg"), a.allow_new)
    /\ carb_pool' = BuildPool(a.pantry_carbs, a.recommendations.Carb,
                              filter_ingredients_by_category("Carb"), a.allow_new)
    /\ plan' = <<>>
    /\ last_meat' = NoneVal
    /\ last_meat2' = NoneVal
    /\ last_veg' = NoneVal
    /\ last_veg2' = NoneVal
    /\ ret' = <<>>
    /\ pc' = "loop"

\* the planner's "Generate" button calls pick_rotation_smart
Invoke(a, u) ==
    /\ pc = "idle"
    /\ a.allow_new = EffectiveAllowNew(u.allow_new, u.pantry_only)
    /\ ui' = u
    /\ EnterCall(a)
    /\ UNCHANGED <<first, INGREDIENTS, sessVars, ratioVars, energyVars, planVars>>

\* variant: the carb of the day before is avoided, as for meat and veg
CarbOfDay_no_repeat(g) ==
    LET last_carb == IF plan = <<>> THEN NoneVal ELSE plan[Len(plan)].Carb
    IN  IF carb_pool # <<>>
        THEN rng_choice(g, KeepIfNonEmpty(Without(carb_pool, last_carb), carb_pool))
        ELSE rng_choice(g, filter_ingredients_by_category("Carb"))

\* `rng.choice(carb_pool) if carb_pool else rng.choice(all_carbs)`
CarbOfDay(g) ==
    IF carb_pool # <<>>
    THEN rng_choice(g, carb_pool)
    ELSE rng_choice(g, filter_ingredients_by_category("Carb"))

\* one iteration of the loop over the days
LoopDay ==
    /\ pc = "loop"
    /\ ~LoopDone(Len(plan), args.days)
    /\ LET m == choose(rng, meat_pool, last_meat, last_meat2,
                       args.taste_meat_map, args.use_taste_weights)
           v == IF veg_pool # <<>>
                THEN choose(m.rng, veg_pool, last_veg, last_veg2,
                            args.taste_veg_map, args.use_taste_weights)
                ELSE rng_choice(m.rng, filter_ingredients_by_category("Veg"))
           c == CarbOfDay(v.rng)
       IN  IF m.err \/ v.err \/ c.err
           THEN /\ pc' = "raised"
                /\ UNCHANGED <<rng, plan, last_meat, last_meat2, last_veg, last_veg2>>
           ELSE /\ pc' = "loop"
                /\ rng' = c.rng
                /\ plan' = Append(plan, [Meat |-> m.val, Veg |-> v.val, Carb |-> c.val])
                /\ last_meat2' = last_meat
                /\ last_meat' = m.val
                /\ last_veg2' = last_veg
                /\ last_veg' = v.val
    /\ UNCHANGED <<args, ui, meat_pool, veg_pool, carb_pool, ret, first,
                   INGREDIENTS, sessVars, ratioVars, energyVars, planVars>>

\* `return plan`
Return ==
    /\ pc = "loop"
    /\ LoopDone(Len(plan), args.days)
    /\ ret' = <<plan>>
    /\ pc' = "returned"
    /\ UNCHANGED <<args, ui, meat_pool, veg_pool, carb_pool, rng, plan, last_meat,
                   last_meat2, last_veg, last_veg2, first,
                   INGREDIENTS, sessVars, ratioVars, energyVars, planVars>>

\* the same call is made a second time
CallAgain ==
    /\ pc \in {"returned", "raised"}
    /\ first = <<>>
    /\ first' = <<[pc |-> pc, ret |-> ret]>>
    /\ EnterCall(args)
    /\ UNCHANGED <<ui, INGREDIENTS, sessVars, ratioVars, energyVars, planVars>>

(***************************************************************************)
(* Weekly plan table and shopping list                                     *)
(***************************************************************************)
RATIO_PRESETS ==
    << [key |-> "balanced", meat_pct |-> 50, veg_pct |-> 35, carb_pct |-> 15],
       [key |-> "weight", meat_pct |-> 45, veg_pct |-> 45, carb_pct |-> 10],
       [key |-> "active", meat_pct |-> 55, veg_pct |-> 25, carb_pct |-> 20],
       [key |-> "senior", meat_pct |-> 48, veg_pct |-> 40, carb_pct |-> 12],
       [key |-> "puppy", meat_pct |-> 55, veg_pct |-> 30, carb_pct |-> 15],
       [key |-> "gentle_gi", meat_pct |-> 50, veg_pct |-> 40, carb_pct |-> 10] >>

\* the placeholder shown for a missing value (a long dash in the source)
Dash == "-"

\* round(x) and round(x, 1) of a float; the latter in tenths
Round0(x) == PyRound(x.n, x.d)
Round1(x) == PyRound(10 * x.n, x.d)

\* name in INGREDIENTS
InCatalog(name) == \E i \in 1..Len(INGREDIENTS) : INGREDIENTS[i].name = name

\* INGREDIENTS[name], for a name of the catalog
CatalogItem(name) ==
    INGREDIENTS[CHOOSE i \in 1..Len(INGREDIENTS) : INGREDIENTS[i].name = name]

\* day_nutrition_estimate.calc
calc(name, grams) ==
    LET ing == CatalogItem(name)
        f == QMul(grams, Q(1, 100))
    IN  [kcal |-> QMul(QInt(ing.kcal_per_100g), f),
         protein |-> QMul(Q(ing.protein_g, 10), f),
         fat |-> QMul(Q(ing.fat_g, 10), f),
         carbs |-> QMul(Q(ing.carbs_g, 10), f)]

\* INGREDIENTS[name] raises KeyError for a name that is not in the catalog
day_nutrition_estimate(meat, veg, carb, meat_g, veg_g, carb_g) ==
    IF ~InCatalog(meat) \/ ~InCatalog(veg) \/ ~InCatalog(carb)
    THEN [err |-> TRUE, val |-> <<>>]
    ELSE LET a == calc(meat, meat_g)
             b == calc(veg, veg_g)
             c == calc(carb, carb_g)
         IN  [err |-> FALSE,
              val |-> <<[kcal |-> QAdd(QAdd(a.kcal, b.kcal), c.kcal),
                         protein |-> QAdd(QAdd(a.protein, b.protein), c.protein),
                         fat |-> QAdd(QAdd(a.fat, b.fat), c.fat),
                         carbs |-> QAdd(QAdd(a.carbs, b.carbs), c.carbs)]>>]

\* one row of the plan table (lines 1341-1363); the columns are named without
\* blanks: DailyMeat is "Daily Meat (g)", Fruit is "Optional Fruit Topper", ...
PlanRow(i, combo, g) ==
    LET t == grams_for_day(g.daily_grams, g.meat_pct, g.veg_pct, g.carb_pct)
        nut == day_nutrition_estimate(combo.Meat, combo.Veg, combo.Carb,
                                      t[1], t[2], t[3])
        per_meal == Q(1, g.meals_per_day)
        fruit == g.fruit_rotation[i]
    IN  IF nut.err THEN [err |-> TRUE, val |-> <<>>]
        ELSE [err |-> FALSE,
              val |-> <<[Day |-> <<"Day", " ", Digits[i]>>,
                         Meat |-> combo.Meat,
                         Veg |-> combo.Veg,
                         Carb |-> combo.Carb,
                         Fruit |-> IF Truthy(fruit) THEN fruit ELSE Dash,
                         DailyMeat |-> Round0(t[1]),
                         DailyVeg |-> Round0(t[2]),
                         DailyCarb |-> Round0(t[3]),
                         PerMealTotal |-> Round0(QMul(g.daily_grams, per_meal)),
                         PerMealMeat |-> Round0(QMul(t[1], per_meal)),
                         PerMealVeg |-> Round0(QMul(t[2], per_meal)),
                         PerMealCarb |-> Round0(QMul(t[3], per_meal)),
                         EstKcal |-> Round0(nut.val[1].kcal),
                         Protein |-> Round1(nut.val[1].protein),
                         Fat |-> Round1(nut.val[1].fat),
                         Carbs |-> Round1(nut.val[1].carbs)]>>]

\* the loop over the rotation: the rows so far, or the exception of a row
RECURSIVE PlanRows(_, _, _, _)
PlanRows(rotation, g, i, rows) ==
    IF i > Len(rotation) THEN [err |-> FALSE, val |-> rows]
    ELSE LET r == PlanRow(i, rotation[i], g)
         IN  IF r.err THEN [err |-> TRUE, val |-> <<>>]
             ELSE PlanRows(rotation, g, i + 1, rows \o r.val)

\* variant: a later day's grams replace the grams counted so far
add_item_overwrite(totals, name, grams) ==
    IF ~Truthy(name) \/ name = Dash THEN totals
    ELSE IF \E k \in 1..Len(totals) : totals[k].name = name
    THEN [k \in 1..Len(totals) |->
             IF totals[k].name = name
             THEN [name |-> name, g |-> grams]
             ELSE totals[k]]
    ELSE Append(totals, [name |-> name, g |-> grams])

\* build_weekly_shopping_list.add_item; totals is the dict as the sequence of
\* its items [name, g] in insertion order
add_item(totals, name, grams) ==
    IF ~Truthy(name) \/ name = Dash THEN totals
    ELSE IF \E k \in 1..Len(totals) : totals[k].name = name
    THEN [k \in 1..Len(totals) |->
             IF totals[k].name = name
             THEN [name |-> name, g |-> totals[k].g + grams]
             ELSE totals[k]]
    ELSE Append(totals, [name |-> name, g |-> grams])

\* the loop over the rows of the plan table
RECURSIVE ShoppingTotals(_, _)
ShoppingTotals(rows, totals) ==
    IF rows = <<>> THEN totals
    ELSE LET row == Head(rows)
             t1 == add_item(totals, row.Meat, row.DailyMeat)
             t2 == add_item(t1, row.Veg, row.DailyVeg)
             t3 == add_item(t2, row.Carb, row.DailyCarb)
         IN  ShoppingTotals(Tail(rows), t3)

\* one row of the shopping list: Total is "Total grams (7 days)", Avg is
\* "Avg grams/day" in tenths
ShoppingRow(item) ==
    [Ingredient |-> item.name,
     Category |-> IF InCatalog(item.name) THEN CatalogItem(item.name).category
                  ELSE "Unknown",
     Total |-> item.g,
     Avg |-> PyRound(10 * item.g, 7)]

\* the strings the tables hold, in the order Python compares them
StringOrder ==
    <<"Beef (lean, cooked)", "Blueberries (small portions)", "Brown Rice (cooked)",
      "Carb", "Carrot (cooked)", "Chicken (lean, cooked)", "Meat",
      "Ostrich (cooked)", "Pumpkin (cooked)", "Sweet Potato (cooked)", "Treat",
      "Turkey (lean, cooked)", "Unknown", "Veg">>

StrRank(x) == CHOOSE k \in 1..Len(StringOrder) : StringOrder[k] = x

\* row a sorts before row b by (Category, Ingredient)
RowLess(a, b) ==
    \/ StrRank(a.Category) < StrRank(b.Category)
    \/ a.Category = b.Category /\ StrRank(a.Ingredient) < StrRank(b.Ingredient)

\* df.sort_values(["Category", "Ingredient"]): insertion into a sorted sequence
RECURSIVE InsertRow(_, _)
InsertRow(sorted, r) ==
    IF sorted = <<>> THEN <<r>>
    ELSE IF RowLess(r, Head(sorted)) THEN <<r>> \o sorted
    ELSE <<Head(sorted)>> \o InsertRow(Tail(sorted), r)

RECURSIVE SortRows(_)
SortRows(rows) ==
    IF rows = <<>> THEN <<>>
    ELSE InsertRow(SortRows(SubSeq(rows, 1, Len(rows) - 1)), rows[Len(rows)])

build_weekly_shopping_list(rows) ==
    LET totals == ShoppingTotals(rows, <<>>)
    IN  SortRows([k \in 1..Len(totals) |-> ShoppingRow(totals[k])])

(***************************************************************************)
(* The planner's "Generate" run (lines 1286-1389)                          *)
(***************************************************************************)
\* n draws of rng.choice(treats)
RECURSIVE FruitChoices(_, _, _)
FruitChoices(g, treats, n) ==
    IF n = 0 THEN <<>>
    ELSE LET c == rng_choice(g, treats)
         IN  <<c.val>> \o FruitChoices(c.rng, treats, n - 1)

\* fruit_rotation: drawn from Random(seed + 7), or seven times None
FruitRotation(include_fruit_toppers, treats, seed) ==
    IF include_fruit_toppers /\ treats # <<>>
    THEN FruitChoices(NewRandom(<<seed + 7>>), treats, 7)
    ELSE [i \in 1..7 |-> NoneVal]

\* meat_pct, veg_pct, carb_pct of the planner: the preset's, or the sliders'
\* values put through ensure_ratio_sum
PlannerRatio(u) ==
    LET p == RATIO_PRESETS[u.preset]
    IN  IF ~u.planner_custom
        THEN [err |-> FALSE, val |-> <<p.meat_pct, p.veg_pct, p.carb_pct>>]
        ELSE ensure_ratio_sum(u.meat_pct, u.veg_pct, u.carb_pct)

\* "Generate 7-Day Nebula Plan" pressed: the script run up to the entry of
\* pick_rotation_smart.  f holds the values of the sidebar's profile widgets,
\* u the values of the planner's widgets.
Generate(f, u) ==
    /\ pc = "idle"
    /\ gen_pc = "off"
    /\ sel_index' = SelectboxIndex(dogs, sel_index)
    /\ sel_options' = DogLabels(dogs)
    /\ LET a == ActiveAfterSelect(dogs, sel_index)
           special_flags == NormaliseFlags(f.special_flags)
           recs == recommend_ingredients(age_to_life_stage(f.age_years), special_flags)
           ratio == PlannerRatio(u)
           energy == compute_daily_energy(f.weight_kg, f.age_years, f.activity,
                                          f.neutered, special_flags)
           daily_grams == estimate_food_grams_from_energy(energy.mer_adj,
                                                          f.assumed_kcal_per_g)
           maps == get_preference_maps(a)
       IN  /\ active_dog_id' = a
           /\ ~ratio.err
           /\ ui' = [pantry_only |-> u.pantry_only, allow_new |-> u.allow_new]
           /\ gen' = [meat_pct |-> ratio.val[1], veg_pct |-> ratio.val[2],
                      carb_pct |-> ratio.val[3], daily_grams |-> daily_grams,
                      meals_per_day |-> f.meals_per_day,
                      fruit_rotation |->
                          FruitRotation(u.include_fruit_toppers, recs.Treat, u.seed)]
           /\ EnterCall([pantry_meats |-> u.pantry_meats,
                         pantry_vegs |-> u.pantry_vegs,
                         pantry_carbs |-> u.pantry_carbs,
                         allow_new |-> EffectiveAllowNew(u.allow_new, u.pantry_only),
                         recommendations |->
                             [Meat |-> recs.Meat, Veg |-> recs.Veg, Carb |-> recs.Carb],
                         taste_meat_map |-> maps.protein,
                         taste_veg_map |-> maps.veg,
                         use_taste_weights |-> u.taste_mode,
                         days |-> Days,
                         seed |-> <<u.seed>>])
    /\ gen_pc' = "rotating"
    /\ UNCHANGED <<dogs, taste_log, first, INGREDIENTS, ratioVars, energyVars,
                   plan_df, shopping_df>>

\* the rows of the plan table and the shopping list, built from the rotation
\* that pick_rotation_smart returned; an exception ends the run with no table
BuildPlan ==
    /\ gen_pc = "rotating"
    /\ pc = "returned"
    /\ LET r == PlanRows(ret[1], gen, 1, <<>>)
       IN  IF r.err
           THEN /\ gen_pc' = "raised"
                /\ plan_df' = <<>>
                /\ shopping_df' = <<>>
           ELSE /\ gen_pc' = "done"
                /\ plan_df' = r.val
                /\ shopping_df' = build_weekly_shopping_list(r.val)
    /\ UNCHANGED <<gen, INGREDIENTS, sessVars, rotVars, ratioVars, energyVars>>

(***************************************************************************)
(* Inputs of the session's forms                                           *)
(***************************************************************************)
\* three of the nine options of the "Special considerations" multiselect
FlagOptions == {"None", "Overweight / Weight loss goal", "Very picky eater"}

NameInputs == {<<>>, <<" ">>, <<" ", "Rex", " ">>}

\* the defaults of the "Add new dog profile" widgets
RestCreate ==
    [breed |-> "Mixed Breed / Unknown", age_years |-> 20, weight_kg |-> 80,
     neutered |-> TRUE, activity |-> "Normal", meals_per_day |-> 2,
     assumed_kcal_per_g |-> 135]

RestOther ==
    [breed |-> "Shiba Inu", age_years |-> 5, weight_kg |-> 125,
     neutered |-> FALSE, activity |-> "High", meals_per_day |-> 3,
     assumed_kcal_per_g |-> 150]

Form(nm, flags, rest) ==
    [name |-> nm, special_flags |-> flags, breed |-> rest.breed,
     age_years |-> rest.age_years, weight_kg |-> rest.weight_kg,
     neutered |-> rest.neutered, activity |-> rest.activity,
     meals_per_day |-> rest.meals_per_day,
     assumed_kcal_per_g |-> rest.assumed_kcal_per_g]

\* each widget varied on its own around the defaults of the form
ProfileForms ==
    {Form(nm, <<"None">>, RestCreate) : nm \in NameInputs}
        \cup {Form(<<>>, fl, RestCreate) : fl \in Selections(FlagOptions)}
        \cup {Form(<<" ", "Rex", " ">>, <<"Very picky eater">>, RestOther)}

\* the create form left at its defaults
DefaultForms == {Form(<<>>, <<"None">>, RestCreate)}

(***************************************************************************)
(* Initial states                                                          *)
(***************************************************************************)
NoArgs ==
    [pantry_meats |-> <<>>, pantry_vegs |-> <<>>, pantry_carbs |-> <<>>,
     allow_new |-> FALSE,
     recommendations |-> [Meat |-> <<>>, Veg |-> <<>>, Carb |-> <<>>],
     taste_meat_map |-> EmptyMap, taste_veg_map |-> EmptyMap,
     use_taste_weights |-> FALSE, days |-> 0, seed |-> 0]

\* the session after the first script run
SessInit ==
    /\ dogs = <<default_dog_profile(DogId(1))>>
    /\ active_dog_id = DogId(1)
    /\ taste_log = <<>>
    /\ sel_options = DogLabels(dogs)
    /\ sel_index = 1

\* no call of pick_rotation_smart made yet
RotInit ==
    /\ pc = "idle"
    /\ args = NoArgs
    /\ ui = [pantry_only |-> FALSE, allow_new |-> FALSE]
    /\ meat_pool = <<>>
    /\ veg_pool = <<>>
    /\ carb_pool = <<>>
    /\ rng = [seed |-> 0, pos |-> 0]
    /\ plan = <<>>
    /\ last_meat = NoneVal
    /\ last_meat2 = NoneVal
    /\ last_veg = NoneVal
    /\ last_veg2 = NoneVal
    /\ ret = <<>>
    /\ first = <<>>

RatioInit ==
    /\ ratio_args = <<>>
    /\ ratio_ret = <<>>

NoEnergyArgs ==
    [weight_kg |-> 10, age_years |-> 30, activity |-> "Normal", neutered |-> TRUE,
     special_flags |-> <<"None">>]

\* no call of compute_daily_energy made
EnergyInit ==
    /\ energy_args = NoEnergyArgs
    /\ energy_ret = <<>>

NoGen ==
    [meat_pct |-> 0, veg_pct |-> 0, carb_pct |-> 0, daily_grams |-> QInt(0),
     meals_per_day |-> 1, fruit_rotation |-> <<>>]

\* the planner's "Generate" button not pressed in this script run
PlanInit ==
    /\ gen_pc = "off"
    /\ gen = NoGen
    /\ plan_df = <<>>
    /\ shopping_df = <<>>

(***************************************************************************)
(* The session: profiles in full, taste entries of one kind                *)
(***************************************************************************)
Init ==
    /\ INGREDIENTS = FullCatalog
    /\ SessInit
    /\ RotInit
    /\ RatioInit
    /\ EnergyInit
    /\ PlanInit

Next ==
    \/ \E i \in 1..MaxDogs : SelectProfile(i)
    \/ \E f \in ProfileForms : CreateProfile(f)
    \/ \E f \in ProfileForms : SaveProfile(f)
    \/ AddTasteEntry("Chicken (lean, cooked)", "(skip)", "Like")

Spec == Init /\ [][Next]_vars

(***************************************************************************)
(* The session: default profiles, taste entries in full                    *)
(***************************************************************************)
NextTaste ==
    \/ \E i \in 1..MaxDogs : SelectProfile(i)
    \/ \E f \in DefaultForms : CreateProfile(f)
    \/ \E m \in {"(skip)", "Chicken (lean, cooked)"},
          v \in {"(skip)", "Pumpkin (cooked)"},
          l \in PrefLabels : AddTasteEntry(m, v, l)

SpecTaste == Init /\ [][NextTaste]_vars


(***************************************************************************)
(* Properties of the session                                               *)
(***************************************************************************)
\* C8: after any sequence of create-profile, select-profile, save-profile and
\* add-taste-entry actions the profile list is non-empty and active_dog_id is
\* the id of a profile in the list.
C8_ActiveDogResolves ==
    /\ Len(dogs) >= 1
    /\ \E i \in 1..Len(dogs) : dogs[i].id = active_dog_id

\* a second profile was created, selected and saved, and an entry was logged
C8_Witness ==
    /\ Len(dogs) = 2
    /\ active_dog_id = dogs[2].id
    /\ dogs[2].breed = "Shiba Inu"
    /\ Len(taste_log) >= 1

\* C9: the special_flags of every stored profile is non-empty and is either
\* exactly ["None"] or contains no "None".
C9_FlagsWellFormed ==
    \A i \in 1..Len(dogs) :
        LET fl == dogs[i].special_flags
        IN  /\ Len(fl) >= 1
            /\ \/ (Len(fl) = 1 /\ fl[1] = "None")
               \/ \A k \in 1..Len(fl) : fl[k] # "None"

\* one profile was saved with two flags, another created with the sentinel alone
C9_Witness ==
    /\ Len(dogs) = 2
    /\ Len(dogs[1].special_flags) = 2
    /\ dogs[2].special_flags = <<"None">>

\* C10: the taste log is append-only: a step either leaves it as it is or is
\* an add-taste-entry step that puts exactly one entry after the existing ones.
C10_AppendOnly ==
    [][\/ taste_log' = taste_log
       \/ /\ Len(taste_log') = Len(taste_log) + 1
          /\ SubSeq(taste_log', 1, Len(taste_log)) = taste_log
          /\ \E m \in {"(skip)"} \cup Range(filter_ingredients_by_category("Meat")),
                v \in {"(skip)"} \cup Range(filter_ingredients_by_category("Veg")),
                l \in PrefLabels : AddTasteEntry(m, v, l)]_vars

\* two entries of different dogs are in the log, and a profile was saved since
C10_Witness ==
    /\ Len(taste_log) = 2
    /\ taste_log[1].dog_id # taste_log[2].dog_id
    /\ dogs[1] # default_dog_profile(DogId(1))

(***************************************************************************)
(* Properties of the preference aggregation                                *)
(***************************************************************************)
\* positions of the log entries of dog d that name n in column col
EntryPositions(d, col, n) ==
    {i \in 1..Len(taste_log) : taste_log[i].dog_id = d /\ taste_log[i][col] = n}

RECURSIVE ScoreTotal(_)
ScoreTotal(S) ==
    IF S = {} THEN 0
    ELSE LET i == CHOOSE k \in S : TRUE
             sc == [Dislike |-> 0, Neutral |-> 1, Like |-> 2, Love |-> 3]
         IN  sc[taste_log[i].Preference] + ScoreTotal(S \ {i})

IngredientNames == {FullCatalog[i].name : i \in 1..Len(FullCatalog)}

DogIds == {DogId(k) : k \in 1..(MaxDogs + 1)}

\* m[n] is the arithmetic mean of the scores at the positions S
IsMeanOf(m, n, S) ==
    /\ n \in DOMAIN m
    /\ m[n].n * Cardinality(S) = ScoreTotal(S) * m[n].d

\* C4: for every dog id d and name n with entries, the protein map of d maps n
\* to the mean score of exactly the entries of d whose Protein is n (likewise
\* Veg and the veg map); entries of other dogs do not count.
C4_MeanPerDogAndName ==
    \A d \in DogIds, n \in IngredientNames :
        LET maps == get_preference_maps(d)
            P == EntryPositions(d, "Protein", n)
            V == EntryPositions(d, "Veg", n)
        IN  /\ P # {} => IsMeanOf(maps.protein, n, P)
            /\ V # {} => IsMeanOf(maps.veg, n, V)

\* two dogs logged the same protein with different preferences
C4_Witness ==
    /\ Len(taste_log) = 2
    /\ taste_log[1].dog_id # taste_log[2].dog_id
    /\ taste_log[1].Protein = "Chicken (lean, cooked)"
    /\ taste_log[2].Protein = "Chicken (lean, cooked)"
    /\ taste_log[1].Preference = "Like"
    /\ taste_log[2].Preference = "Love"
    /\ get_preference_maps(taste_log[1].dog_id).protein["Chicken (lean, cooked)"] = QInt(2)

(***************************************************************************)
(* The ratio normaliser on its own                                         *)
(***************************************************************************)
NextRatio == \E m \in PctInputs, v \in PctInputs, c \in PctInputs : CallEnsureRatioSum(m, v, c)

SpecRatio == Init /\ [][NextRatio]_vars

\* C2: for every triple with m+v+c # 100, ensure_ratio_sum returns a triple of
\* integers that sums to exactly 100 with all components >= 0, and never fails.
C2_NormalisedOrFails ==
    (ratio_ret # <<>> /\ ratio_args[1] + ratio_args[2] + ratio_args[3] # 100) =>
        LET r == ratio_ret[1]
        IN  /\ ~r.err
            /\ r.val[1] + r.val[2] + r.val[3] = 100
            /\ r.val[1] >= 0 /\ r.val[2] >= 0 /\ r.val[3] >= 0

(***************************************************************************)
(* The rotation selector on its own                                        *)
(***************************************************************************)
\* pantry selections of one category: none, one item and, if asked for, two
\* items in the reverse of the catalog's order
PantryChoices(all, pair) ==
    {<<>>}
        \cup (IF Len(all) >= 1 THEN {<<all[Len(all)]>>} ELSE {})
        \cup (IF pair /\ Len(all) >= 2 THEN {<<all[2], all[1]>>} ELSE {})

\* preference maps as get_preference_maps returns them
MeatMapInput ==
    ("Chicken (lean, cooked)" :> QInt(3)) @@ ("Turkey (lean, cooked)" :> QInt(0))

VegMapInput == ("Pumpkin (cooked)" :> Q(5, 2))

TasteChoices ==
    {[meat |-> EmptyMap, veg |-> EmptyMap], [meat |-> MeatMapInput, veg |-> VegMapInput]}

SeedChoices == {<<>>} \cup {<<n>> : n \in 1..MaxSeed}

RecChoices == {recommend_ingredients("Puppy", <<"None">>)}

RotArgs ==
    {[pantry_meats |-> pm, pantry_vegs |-> pv, pantry_carbs |-> pcb,
      allow_new |-> an, recommendations |-> rc,
      taste_meat_map |-> t.meat, taste_veg_map |-> t.veg,
      use_taste_weights |-> ut, days |-> Days, seed |-> sd] :
        pm \in PantryChoices(filter_ingredients_by_category("Meat"), TRUE),
        pv \in PantryChoices(filter_ingredients_by_category("Veg"), FALSE),
        pcb \in PantryChoices(filter_ingredients_by_category("Carb"), FALSE),
        an \in BOOLEAN, rc \in RecChoices, t \in TasteChoices,
        ut \in BOOLEAN, sd \in SeedChoices}

UiChoices == [pantry_only : BOOLEAN, allow_new : BOOLEAN]

InitRotation ==
    /\ INGREDIENTS \in Catalogs
    /\ SessInit
    /\ RotInit
    /\ RatioInit
    /\ EnergyInit
    /\ PlanInit

NextRotation ==
    \/ pc = "idle" /\ \E a \in RotArgs, u \in UiChoices : Invoke(a, u)
    \/ LoopDay
    \/ Return
    \/ CallAgain

SpecRotation == InitRotation /\ [][NextRotation]_vars


(***************************************************************************)
(* Properties of the rotation selector                                     *)
(***************************************************************************)
Finished == pc \in {"returned", "raised"}

AllPoolsNonEmpty == meat_pool # <<>> /\ veg_pool # <<>> /\ carb_pool # <<>>

\* C1: two calls of pick_rotation_smart with identical arguments (pantry
\* lists, recommendations, preference maps, flags, day count and seed) end the
\* same way and return the identical sequence of picks.
C1_SameArgsSamePlan ==
    (first # <<>> /\ Finished) => (pc = first[1].pc /\ ret = first[1].ret)

\* both calls returned a plan in which the draws made a difference
C1_Witness ==
    /\ first # <<>>
    /\ pc = "returned"
    /\ first[1].pc = "returned"
    /\ ret[1][1].Meat # ret[1][2].Meat
    /\ ret[1][1].Carb # ret[1][2].Carb
    /\ ret[1][2].Carb = ret[1][3].Carb
    /\ args.use_taste_weights

\* category cat of every entry of the sequence p is the ingredient x
AllDays(p, cat, x) == \A i \in 1..Len(p) : p[i][cat] = x

\* C3: with a single ingredient in the meat (or veg) pool, that ingredient is
\* chosen for the category on every one of the 7 days, and the anti-repeat
\* rules cause no failure.
C3_SingleItemPoolRepeats ==
    /\ (pc = "returned" /\ Len(meat_pool) = 1) =>
           (Len(ret[1]) = 7 /\ AllDays(ret[1], "Meat", meat_pool[1]))
    /\ (pc = "returned" /\ Len(veg_pool) = 1) =>
           (Len(ret[1]) = 7 /\ AllDays(ret[1], "Veg", veg_pool[1]))
    /\ (AllPoolsNonEmpty /\ (Len(meat_pool) = 1 \/ Len(veg_pool) = 1)) =>
           pc # "raised"

\* a plan was returned from a one-item meat pool and a one-item veg pool
C3_Witness ==
    /\ pc = "returned"
    /\ Len(meat_pool) = 1
    /\ Len(veg_pool) = 1
    /\ Len(carb_pool) = 2
    /\ Len(ret[1]) = 7

\* C5: a call returns either nothing (it failed) or a plan of exactly 7 entries,
\* each holding a meat of the meat pool, a veg of the veg pool and a carb of
\* the carb pool.
C5_FullPlanOrNothing ==
    /\ ret # <<>> =>
           /\ pc = "returned"
           /\ Len(ret[1]) = 7
           /\ \A i \in 1..Len(ret[1]) :
                  /\ ret[1][i].Meat \in Range(meat_pool)
                  /\ ret[1][i].Veg \in Range(veg_pool)
                  /\ ret[1][i].Carb \in Range(carb_pool)
    /\ pc = "returned" => ret # <<>>
    /\ pc = "raised" => ret = <<>>

\* a plan was returned from pools of more than one ingredient each
C5_Witness ==
    /\ pc = "returned"
    /\ Len(meat_pool) = 3
    /\ Len(veg_pool) = 2
    /\ Len(carb_pool) = 2
    /\ ret[1][1].Meat # ret[1][2].Meat

\* C6: when the pool of a category is empty, the call appends no day to the
\* plan and returns nothing: it ends by raising.
C6_EmptyPoolFails ==
    (pc # "idle" /\ ~AllPoolsNonEmpty) =>
        /\ plan = <<>>
        /\ ret = <<>>
        /\ pc \in {"loop", "raised"}

\* the call raised because the veg pool, alone, was empty
C6_Witness ==
    /\ pc = "raised"
    /\ veg_pool = <<>>
    /\ meat_pool # <<>>
    /\ carb_pool # <<>>

\* with expansion disallowed, the pool of a category and the picks made from it
FromPantry(pantry, pool, cat) ==
    /\ pantry # <<>> => (pool = pantry /\ \A i \in 1..Len(plan) : plan[i][cat] \in Range(pantry))
    /\ pantry = <<>> => pool = filter_ingredients_by_category(cat)

\* C7: pantry-only mode forces allow_new to false; with allow_new false the
\* pool of a category is the pantry selection if it is non-empty, so every
\* pick is a pantry item, and the full catalog of the category otherwise.
C7_PantryOnlyPools ==
    pc # "idle" =>
        /\ ui.pantry_only => ~args.allow_new
        /\ ~args.allow_new =>
               /\ FromPantry(args.pantry_meats, meat_pool, "Meat")
               /\ FromPantry(args.pantry_vegs, veg_pool, "Veg")
               /\ FromPantry(args.pantry_carbs, carb_pool, "Carb")

\* a plan made in pantry-only mode, with smart rotation switched on, from a
\* pantry that has meats but no vegetables
C7_Witness ==
    /\ pc = "returned"
    /\ ui.pantry_only
    /\ ui.allow_new
    /\ Len(args.pantry_meats) = 2
    /\ args.pantry_vegs = <<>>
    /\ Len(veg_pool) = 2

(***************************************************************************)
(* The planner: taste entries, then one "Generate" run                     *)
(***************************************************************************)
\* values of the sidebar's profile widgets when the plan is generated
AdultForm ==
    Form(<<>>, <<"None">>,
         [breed |-> "Mixed Breed / Unknown", age_years |-> 30, weight_kg |-> 160,
          neutered |-> TRUE, activity |-> "Normal", meals_per_day |-> 2,
          assumed_kcal_per_g |-> 135])

PuppyForm ==
    Form(<<"Rex">>, <<"Overweight / Weight loss goal", "Very picky eater">>,
         [breed |-> "Shiba Inu", age_years |-> 5, weight_kg |-> 10,
          neutered |-> FALSE, activity |-> "High", meals_per_day |-> 3,
          assumed_kcal_per_g |-> 100])

SeniorForm ==
    Form(<<>>, <<>>,
         [breed |-> "Mixed Breed / Unknown", age_years |-> 80, weight_kg |-> 160,
          neutered |-> TRUE, activity |-> "Low", meals_per_day |-> 1,
          assumed_kcal_per_g |-> 150])

PlannerForms == {AdultForm, PuppyForm, SeniorForm}

\* the three pantry multiselects: nothing, one item each, two meats
PlannerPantries ==
    {<<<<>>, <<>>, <<>>>>,
     <<<<"Beef (lean, cooked)">>, <<"Carrot (cooked)">>, <<"Brown Rice (cooked)">>>>,
     <<<<"Turkey (lean, cooked)", "Chicken (lean, cooked)">>, <<>>, <<>>>>}

\* the ratio widgets: two presets, and the sliders at their lowest and highest
PlannerRatios ==
    {[preset |-> 1, planner_custom |-> FALSE, meat_pct |-> 50, veg_pct |-> 35,
      carb_pct |-> 15],
     [preset |-> 2, planner_custom |-> FALSE, meat_pct |-> 45, veg_pct |-> 45,
      carb_pct |-> 10],
     [preset |-> 1, planner_custom |-> TRUE, meat_pct |-> 30, veg_pct |-> 15,
      carb_pct |-> 0],
     [preset |-> 1, planner_custom |-> TRUE, meat_pct |-> 70, veg_pct |-> 55,
      carb_pct |-> 30]}

PlannerSeeds == {1, MaxSeed}

PlannerInput(p, r, po, an, tm, sd) ==
    [pantry_meats |-> p[1], pantry_vegs |-> p[2], pantry_carbs |-> p[3],
     pantry_only |-> po, allow_new |-> an, taste_mode |-> tm,
     include_fruit_toppers |-> tm,
     preset |-> r.preset, planner_custom |-> r.planner_custom,
     meat_pct |-> r.meat_pct, veg_pct |-> r.veg_pct, carb_pct |-> r.carb_pct,
     seed |-> sd]

PlannerInputs ==
    {PlannerInput(p, r, po, an, tm, sd) :
        p \in PlannerPantries, r \in PlannerRatios, po \in BOOLEAN, an \in BOOLEAN,
        tm \in BOOLEAN, sd \in PlannerSeeds}

\* the runs: every planner input for one profile, and for the other profiles
\* the inputs that leave the mode toggles at their defaults
PlannerRuns ==
    {r \in PlannerForms \X PlannerInputs :
        \/ r[1] = AdultForm
        \/ (~r[2].pantry_only /\ r[2].allow_new /\ r[2].taste_mode)}

\* taste entries logged before the plan is generated
PlannerEntries ==
    {<<"Chicken (lean, cooked)", "Pumpkin (cooked)", "Love">>,
     <<"Turkey (lean, cooked)", "(skip)", "Dislike">>}

NextPlanner ==
    \/ pc = "idle" /\ \E e \in PlannerEntries : AddTasteEntry(e[1], e[2], e[3])
    \/ pc = "idle" /\ \E r \in PlannerRuns : Generate(r[1], r[2])
    \/ LoopDay
    \/ Return
    \/ BuildPlan

SpecPlanner == Init /\ [][NextPlanner]_vars

CatalogNames == {INGREDIENTS[i].name : i \in 1..Len(INGREDIENTS)}

\* C11: every ingredient name in a generated rotation plan (and in the plan
\* table built from it), and every key of a preference map returned by
\* get_preference_maps, is a key of the catalog INGREDIENTS.
C11_NamesInCatalog ==
    /\ \A i \in 1..Len(plan) :
           {plan[i].Meat, plan[i].Veg, plan[i].Carb} \subseteq CatalogNames
    /\ \A i \in 1..Len(plan_df) :
           {plan_df[i].Meat, plan_df[i].Veg, plan_df[i].Carb} \subseteq CatalogNames
    /\ \A d \in DogIds :
           /\ DOMAIN get_preference_maps(d).protein \subseteq CatalogNames
           /\ DOMAIN get_preference_maps(d).veg \subseteq CatalogNames
    /\ pc # "idle" =>
           /\ DOMAIN args.taste_meat_map \subseteq CatalogNames
           /\ DOMAIN args.taste_veg_map \subseteq CatalogNames

\* a plan was generated with expansion allowed, from pantry items,
\* recommendations and learned preferences
C11_Witness ==
    /\ gen_pc = "done"
    /\ args.allow_new
    /\ args.pantry_meats # <<>>
    /\ args.recommendations.Meat # <<>>
    /\ DOMAIN args.taste_meat_map = {"Chicken (lean, cooked)", "Turkey (lean, cooked)"}
    /\ DOMAIN get_preference_maps(active_dog_id).veg = {"Pumpkin (cooked)"}
    /\ Len(plan_df) = 7

\* the names in the Meat, Veg and Carb columns of the plan table
PlanNames == UNION {{plan_df[i].Meat, plan_df[i].Veg, plan_df[i].Carb} : i \in 1..Len(plan_df)}

\* grams of the ingredient on one day of the plan table, over the three columns
GramsOnDay(row, name) ==
    (IF row.Meat = name THEN row.DailyMeat ELSE 0)
        + (IF row.Veg = name THEN row.DailyVeg ELSE 0)
        + (IF row.Carb = name THEN row.DailyCarb ELSE 0)

RECURSIVE GramsOverDays(_, _)
GramsOverDays(n, name) ==
    IF n = 0 THEN 0 ELSE GramsOverDays(n - 1, name) + GramsOnDay(plan_df[n], name)

\* the shopping list has exactly one row for each name of the plan table, and
\* the row's total is the sum of the daily grams of that name
OneRowPerNameWithTotal ==
    /\ {shopping_df[k].Ingredient : k \in 1..Len(shopping_df)} = PlanNames
    /\ Len(shopping_df) = Cardinality(PlanNames)
    /\ \A k \in 1..Len(shopping_df) :
           shopping_df[k].Total = GramsOverDays(Len(plan_df), shopping_df[k].Ingredient)

\* C12 as stated: for a 7-day plan the shopping list has one row per distinct
\* ingredient name of the plan, the row's total is the sum of the daily grams
\* allocated to the ingredient, and its average equals that total divided by 7.
C12_TotalAndExactAverage ==
    gen_pc = "done" =>
        /\ Len(plan_df) = 7
        /\ OneRowPerNameWithTotal
        /\ \A k \in 1..Len(shopping_df) :
               7 * shopping_df[k].Avg = 10 * shopping_df[k].Total

\* C12 as amended: as above, but the average is the total divided by 7 rounded
\* to one decimal place (the tenth nearest to total / 7).
C12_TotalAndRoundedAverage ==
    gen_pc = "done" =>
        /\ Len(plan_df) = 7
        /\ OneRowPerNameWithTotal
        /\ \A k \in 1..Len(shopping_df) :
               2 * Abs(7 * shopping_df[k].Avg - 10 * shopping_df[k].Total) < 7

\* a shopping list in which one ingredient is on all seven days and another
\* on some days only, with a total that 7 does not divide
C12_Witness ==
    /\ gen_pc = "done"
    /\ Len(shopping_df) >= 4
    /\ \E k \in 1..Len(shopping_df) :
           /\ shopping_df[k].Total > 0
           /\ \A i \in 1..7 : GramsOnDay(plan_df[i], shopping_df[k].Ingredient) > 0
    /\ \E k \in 1..Len(shopping_df) :
           /\ (10 * shopping_df[k].Total) % 7 # 0
           /\ \E i \in 1..7 : GramsOnDay(plan_df[i], shopping_df[k].Ingredient) = 0

(***************************************************************************)
(* The planner with a stale reference: the pantry names an ingredient that *)
(* the catalog does not (or no longer does) hold                           *)
(***************************************************************************)
StalePantries ==
    {<<<<"Ostrich (cooked)">>, <<>>, <<>>>>,
     <<<<"Ostrich (cooked)", "Beef (lean, cooked)">>, <<"Carrot (cooked)">>, <<>>>>}

StaleInputs ==
    {PlannerInput(p, r, po, an, tm, sd) :
        p \in StalePantries, r \in PlannerRatios, po \in BOOLEAN, an \in BOOLEAN,
        tm \in BOOLEAN, sd \in PlannerSeeds}

NextStale ==
    \/ pc = "idle" /\ \E f \in PlannerForms, u \in StaleInputs : Generate(f, u)
    \/ LoopDay
    \/ Return
    \/ BuildPlan

SpecStale == Init /\ [][NextStale]_vars

\* the names of the returned rotation that the catalog does not hold
AbsentNames ==
    IF ret = <<>> THEN {}
    ELSE UNION {{ret[1][i].Meat, ret[1][i].Veg, ret[1][i].Carb} : i \in 1..Len(ret[1])}
             \ CatalogNames

\* C13: an ingredient name referenced by a plan but absent from the catalog is
\* not fatal: the weekly plan table and its shopping list are produced, and the
\* ingredient's row of the shopping list carries the category "Unknown".
C13_UnknownNotFatal ==
    (gen_pc \in {"done", "raised"} /\ AbsentNames # {}) =>
        /\ gen_pc = "done"
        /\ \A n \in AbsentNames :
               \E k \in 1..Len(shopping_df) :
                   shopping_df[k].Ingredient = n /\ shopping_df[k].Category = "Unknown"

(***************************************************************************)
(* Further properties of the session                                       *)
(***************************************************************************)
\* the step is a press of "Save profile changes"
SaveStep == \E f \in ProfileForms : SaveProfile(f)

\* the profiles that exist before the step are the same after it
ProfilesKept ==
    /\ Len(dogs') >= Len(dogs)
    /\ \A i \in 1..Len(dogs) : dogs'[i] = dogs[i]

\* the step replaces the editable fields of the profile the pointer names, all
\* at once, and nothing else of the profile list
SavesActiveProfile ==
    /\ Len(dogs') = Len(dogs)
    /\ \A i \in 1..Len(dogs) :
           /\ dogs'[i].id = dogs[i].id
           /\ dogs[i].id # active_dog_id => dogs'[i] = dogs[i]
    /\ \E f \in ProfileForms :
           \A i \in 1..Len(dogs) :
               dogs[i].id = active_dog_id =>
                   \A k \in DOMAIN FormUpdates(f) : dogs'[i][k] = FormUpdates(f)[k]

\* C14: a profile is mutated only by the save action: a save step replaces all
\* editable fields of the active profile at once and leaves that profile's id,
\* every other profile, the active pointer and the taste log unchanged; every
\* other step (create, select, add taste entry) changes no existing profile.
C14_OnlySaveMutates ==
    [][/\ SaveStep =>
              /\ SavesActiveProfile
              /\ active_dog_id' = active_dog_id
              /\ taste_log' = taste_log
       /\ ~SaveStep => ProfilesKept]_vars

(***************************************************************************)
(* compute_daily_energy on its own                                         *)
(***************************************************************************)
\* the options of the "Special considerations" multiselect, in their order
AllFlagOptions ==
    <<"None", "Overweight / Weight loss goal", "Sensitive stomach",
      "Pancreatitis risk / Needs lower fat", "Skin/coat concern", "Very picky eater",
      "Kidney concern (vet-managed)", "Food allergy suspected",
      "Joint/mobility support focus">>

\* the selections of a list of options, each in the options' order
RECURSIVE SubSeqs(_)
SubSeqs(s) ==
    IF s = <<>> THEN {<<>>}
    ELSE LET r == SubSeqs(Tail(s))
         IN  r \cup {<<Head(s)>> \o x : x \in r}

\* ages on both sides of the stage limits, the four activity levels and a value
\* that is none of them, both neuter states, every selection of flags
EnergyInputs ==
    [weight_kg : {10, 160},
     age_years : {5, 10, 69, 70},
     activity : {"Low", "Normal", "High", "Athletic/Working", "Sprint"},
     neutered : BOOLEAN,
     special_flags : SubSeqs(AllFlagOptions)]

InitEnergy ==
    /\ INGREDIENTS = FullCatalog
    /\ SessInit
    /\ RotInit
    /\ RatioInit
    /\ PlanInit
    /\ energy_args \in EnergyInputs
    /\ energy_ret = <<>>

NextEnergy == CallComputeDailyEnergy

SpecEnergy == InitEnergy /\ [][NextEnergy]_vars

\* base multiplier in tenths, by life stage and neuter status
BaseTenths(age_years, neutered) ==
    IF age_years < 10 THEN (IF neutered THEN 22 ELSE 24)
    ELSE IF age_years >= 70 THEN (IF neutered THEN 13 ELSE 14)
    ELSE (IF neutered THEN 16 ELSE 18)

\* activity multiplier in hundredths
ActivityHundredths(activity) ==
    CASE activity = "Low" -> 90
      [] activity = "Normal" -> 100
      [] activity = "High" -> 120
      [] activity = "Athletic/Working" -> 135
      [] OTHER -> 100

\* x = y * num / den, for floats x and y
IsScaled(x, y, num, den) == x.n * y.d * den = y.n * num * x.d

\* C15: compute_daily_energy returns MER = RER x base x activity, with the stage
\* Puppy for age < 1, Adult for 1 <= age < 7, Senior for age >= 7, base 1.6/1.8
\* (Adult neutered/intact), 2.2/2.4 (Puppy), 1.3/1.4 (Senior), and activity 0.9,
\* 1.0, 1.2, 1.35 for Low, Normal, High, Athletic/Working and 1.0 for any other
\* value.
C15_MerIsRerBaseActivity ==
    energy_ret # <<>> =>
        /\ IsScaled(energy_ret[1].mer, energy_ret[1].rer,
                    BaseTenths(energy_args.age_years, energy_args.neutered)
                        * ActivityHundredths(energy_args.activity),
                    1000)
        /\ energy_ret[1].explanation[1] =
               (IF energy_args.age_years < 10 THEN "Puppy"
                ELSE IF energy_args.age_years < 70 THEN "Adult" ELSE "Senior")

\* an intact puppy of 16 kg at the highest activity: 560 x 2.4 x 1.35 = 1814.4
C15_Witness ==
    /\ energy_ret # <<>>
    /\ energy_args.age_years = 5
    /\ ~energy_args.neutered
    /\ energy_args.activity = "Athletic/Working"
    /\ energy_ret[1].rer = QInt(560)
    /\ energy_ret[1].mer = Q(9072, 5)

\* the product of the factors of the flags that adjust the energy target
FlagFactor(flags) ==
    LET loss == IF "Overweight / Weight loss goal" \in Range(flags) THEN 17 ELSE 20
        panc == IF "Pancreatitis risk / Needs lower fat" \in Range(flags) THEN 19 ELSE 20
        kidney == IF "Kidney concern (vet-managed)" \in Range(flags) THEN 19 ELSE 20
    IN  Q(loss * panc * kidney, 8000)

\* C16: for every subset of special flags, adjusted MER = MER x 0.85 (weight-loss
\* flag) x 0.95 (pancreatitis/low-fat flag) x 0.95 (kidney-concern flag), each
\* factor only if its flag is present; no other flag changes the number, and the
\* picky-eater flag adds its rationale note to the explanation.
C16_AdjustmentsStack ==
    energy_ret # <<>> =>
        /\ energy_ret[1].mer_adj = QMul(energy_ret[1].mer, FlagFactor(energy_args.special_flags))
        /\ ("Very picky eater" \in Range(energy_args.special_flags)) <=>
               ("Use palatability tactics & stronger rotation."
                    \in Range(energy_ret[1].explanation))

\* all three adjusting flags together with the picky-eater flag:
\* 896 x 0.85 x 0.95 x 0.95 = 687.344
C16_Witness ==
    /\ energy_ret # <<>>
    /\ energy_args.special_flags =
           <<"Overweight / Weight loss goal", "Pancreatitis risk / Needs lower fat",
             "Very picky eater", "Kidney concern (vet-managed)">>
    /\ energy_ret[1].mer = QInt(896)
    /\ energy_ret[1].mer_adj = Q(687344, 1000)
    /\ Len(energy_ret[1].explanation) = 9

C18_IdsDistinct ==
    \A i, j \in 1..Len(dogs) : dogs[i].id = dogs[j].id => i = j

\* the session holds as many profiles as it can, the first one saved since,
\* and a taste entry
C18_Witness ==
    /\ Len(dogs) = MaxDogs
    /\ dogs[1].breed = "Shiba Inu"
    /\ dogs[MaxDogs].id = DogId(MaxDogs)
    /\ Len(taste_log) >= 1

\* the selection the claim describes, the flags taken in the order they were
\* selected: "None" clears what was selected before it, any other flag clears
\* "None"
RECURSIVE ClaimedFlags(_, _)
ClaimedFlags(sel, cur) ==
    IF sel = <<>> THEN cur
    ELSE IF Head(sel) = "None" THEN ClaimedFlags(Tail(sel), <<"None">>)
    ELSE ClaimedFlags(Tail(sel), Append(Without(cur, "None"), Head(sel)))

\* the flags of the profile that the pointer names after the step
StoredFlagsAfter ==
    LET i == CHOOSE k \in 1..Len(dogs') : dogs'[k].id = active_dog_id'
    IN  dogs'[i].special_flags

RoundedTarget(total_grams, pct) == PyRound(total_grams.n * pct, total_grams.d * 100)

\* C20: in a generated weekly plan the daily meat, veg and carb grams are the
\* same on all 7 days: they are the gram targets computed from the total grams
\* and the ratio, whatever ingredients were picked for the day.
C20_SameGramsEveryDay ==
    gen_pc = "done" =>
        /\ Len(plan_df) = 7
        /\ \A i \in 1..Len(plan_df) :
               /\ plan_df[i].DailyMeat = RoundedTarget(gen.daily_grams, gen.meat_pct)
               /\ plan_df[i].DailyVeg = RoundedTarget(gen.daily_grams, gen.veg_pct)
               /\ plan_df[i].DailyCarb = RoundedTarget(gen.daily_grams, gen.carb_pct)
               /\ plan_df[i].DailyMeat = plan_df[1].DailyMeat
               /\ plan_df[i].DailyVeg = plan_df[1].DailyVeg
               /\ plan_df[i].DailyCarb = plan_df[1].DailyCarb

\* a plan whose picks change from day to day, with three different targets
C20_Witness ==
    /\ gen_pc = "done"
    /\ plan_df[1].Meat # plan_df[2].Meat
    /\ plan_df[1].Veg # plan_df[2].Veg
    /\ plan_df[1].Carb # plan_df[2].Carb
    /\ plan_df[1].DailyMeat > plan_df[1].DailyVeg
    /\ plan_df[1].DailyVeg > plan_df[1].DailyCarb
    /\ plan_df[1].DailyCarb > 0

(***************************************************************************)
(* The anti-repeat rules of choose                                         *)
(***************************************************************************)
\* the loop is about to pick for one more day
PickingDay == pc = "loop" /\ ~LoopDone(Len(plan), args.days)

\* the previous-day rule takes `last` out of the candidates the pair rule left
RemovedByPrev(pool, last, last2) ==
    /\ Truthy(last)
    /\ last \in Range(CandidatesAfterPair(pool, last, last2))
    /\ last \notin Range(Candidates(pool, last, last2))

\* the candidates the pair rule left, other than `last`
OthersAfterPair(pool, last, last2) ==
    Range(CandidatesAfterPair(pool, last, last2)) \ {last}

\* the statement, for one category, that the previous pick is removed only
\* when more than one candidate would remain
PrevKeptUnlessManyRemain(pool, last, last2) ==
    /\ RemovedByPrev(pool, last, last2) =>
           Cardinality(OthersAfterPair(pool, last, last2)) > 1
    /\ (Cardinality(Range(pool)) = 2 /\ Truthy(last)
            /\ last \in Range(CandidatesAfterPair(pool, last, last2))) =>
           last \in Range(Candidates(pool, last, last2))

\* C21 as stated: in the per-day meat/veg selection the previous day's
\* ingredient is removed from the candidate set only when removing it would
\* leave more than one candidate; with a pool of exactly two distinct
\* ingredients it stays in the candidate set (unless the last-two-equal rule
\* removed it).
C21_PrevRemovedOnlyIfManyRemain ==
    PickingDay =>
        /\ PrevKeptUnlessManyRemain(meat_pool, last_meat, last_meat2)
        /\ PrevKeptUnlessManyRemain(veg_pool, last_veg, last_veg2)

\* the statement, for one category, that the previous pick is removed exactly
\* when at least one other candidate remains
PrevRemovedIfAnyRemains(pool, last, last2) ==
    /\ RemovedByPrev(pool, last, last2) <=>
           /\ Truthy(last)
           /\ last \in Range(CandidatesAfterPair(pool, last, last2))
           /\ OthersAfterPair(pool, last, last2) # {}
    /\ (Cardinality(Range(pool)) = 2 /\ Truthy(last) /\ last \in Range(pool)) =>
           /\ Len(Candidates(pool, last, last2)) = 1
           /\ Range(Candidates(pool, last, last2)) = Range(pool) \ {last}

\* C21, amended: the previous day's ingredient is removed from the candidate
\* set exactly when it is in the set and removing it leaves at least one
\* candidate; with a pool of exactly two distinct ingredients the previous
\* day's ingredient is removed and the other one is the only candidate.
C21_PrevRemovedIfAnyRemains ==
    PickingDay =>
        /\ PrevRemovedIfAnyRemains(meat_pool, last_meat, last_meat2)
        /\ PrevRemovedIfAnyRemains(veg_pool, last_veg, last_veg2)

\* a day is about to be picked from a meat pool of exactly two ingredients,
\* the first of which was picked the day before
C21_Witness ==
    /\ PickingDay
    /\ Len(plan) >= 1
    /\ Len(meat_pool) = 2
    /\ Len(veg_pool) = 2
    /\ last_meat = meat_pool[1]
    /\ Candidates(meat_pool, last_meat, last_meat2) = <<meat_pool[2]>>

\* category cat of the plan never holds one ingredient on three days in a row
NoTripleRun(p, cat) ==
    \A d \in 3..Len(p) : ~(p[d - 2][cat] = p[d - 1][cat] /\ p[d - 1][cat] = p[d][cat])

\* C22: whenever the meat (or veg) pool contains at least two distinct
\* ingredients, no ingredient is chosen for that category on three consecutive
\* days: if days d-2 and d-1 picked the same ingredient, day d picks a
\* different one.
C22_NoThreeInARow ==
    /\ Cardinality(Range(meat_pool)) >= 2 => NoTripleRun(plan, "Meat")
    /\ Cardinality(Range(veg_pool)) >= 2 => NoTripleRun(plan, "Veg")

\* a returned plan from a two-item meat pool and a two-item veg pool, in
\* which the first meat comes back on the third day
C22_Witness ==
    /\ pc = "returned"
    /\ Len(meat_pool) = 2
    /\ Len(veg_pool) = 2
    /\ Len(plan) = 7
    /\ plan[1].Meat = plan[3].Meat
    /\ plan[1].Veg = plan[3].Veg

\* category cat of the plan never holds one ingredient on two days in a row
NoDoubleRun(p, cat) == \A d \in 2..Len(p) : p[d - 1][cat] # p[d][cat]

\* C28: whenever the meat (or veg) pool contains at least two distinct
\* ingredients, the ingredient chosen for that category on day d+1 differs from
\* the one chosen on day d, for every d in 1..6; as a result the
\* last-two-equal rule never changes the candidate set in any reachable state.
C28_NoTwoInARow ==
    /\ Cardinality(Range(meat_pool)) >= 2 => NoDoubleRun(plan, "Meat")
    /\ Cardinality(Range(veg_pool)) >= 2 => NoDoubleRun(plan, "Veg")
    /\ PickingDay =>
           /\ CandidatesAfterPair(meat_pool, last_meat, last_meat2) = meat_pool
           /\ CandidatesAfterPair(veg_pool, last_veg, last_veg2) = veg_pool

\* a returned plan from a three-item meat pool and a two-item veg pool in
\* which the meats of days 1, 2 and 3 are three different ones
C28_Witness ==
    /\ pc = "returned"
    /\ Len(meat_pool) = 3
    /\ Len(plan) = 7
    /\ plan[1].Meat # plan[3].Meat
    /\ plan[1].Meat # plan[2].Meat
    /\ Len(veg_pool) = 2

(***************************************************************************)
(* Selection weights                                                       *)
(***************************************************************************)
\* w is the weight the claim gives a candidate: 1 without weighting or
\* without a learned score, the larger of 1/4 and 1/4 + score otherwise
IsClaimedWeight(w, name, m, use) ==
    IF ~use \/ name \notin DOMAIN m
    THEN w.n = w.d
    ELSE LET s == m[name]
         IN  IF s.n >= 0
             THEN 4 * w.n * s.d = w.d * (s.d + 4 * s.n)
             ELSE 4 * w.n = w.d

\* the weights choose computes for the day about to be picked are the claimed
\* ones, none is below 1/4, and their total is positive
WeightsAsClaimed(pool, last, last2, m, use) ==
    LET candidates == Candidates(pool, last, last2)
        weights == CandidateWeights(candidates, m, use)
    IN  /\ Len(weights) = Len(candidates)
        /\ \A i \in 1..Len(candidates) :
               /\ IsClaimedWeight(weights[i], candidates[i], m, use)
               /\ 4 * weights[i].n >= weights[i].d
        /\ candidates # <<>> => ~QLe(TotalWeight(weights), QInt(0))

\* C23: each candidate's selection weight is 1.0 when preference weighting is
\* disabled or the candidate has no learned score, and max(0.25, 0.25 + score)
\* otherwise; hence every weight is >= 0.25, the total weight of a non-empty
\* candidate set is > 0, and the uniform-choice fallback for total weight <= 0
\* is never taken during rotation generation.
C23_WeightsAtLeastQuarter ==
    PickingDay =>
        /\ WeightsAsClaimed(meat_pool, last_meat, last_meat2,
                            args.taste_meat_map, args.use_taste_weights)
        /\ WeightsAsClaimed(veg_pool, last_veg, last_veg2,
                            args.taste_veg_map, args.use_taste_weights)

\* with weighting on, the only meat candidate of the day has the learned
\* score 0, and the veg map holds a score for one of the two vegetables
C23_Witness ==
    /\ PickingDay
    /\ args.use_taste_weights
    /\ Len(plan) >= 1
    /\ Len(meat_pool) = 2
    /\ Candidates(meat_pool, last_meat, last_meat2) = <<"Turkey (lean, cooked)">>
    /\ args.taste_meat_map["Turkey (lean, cooked)"] = QInt(0)
    /\ "Pumpkin (cooked)" \in DOMAIN args.taste_veg_map
    /\ Len(veg_pool) = 2

(***************************************************************************)
(* The weighted draw                                                       *)
(***************************************************************************)
\* the sum of the first k weights
RECURSIVE CumWeight(_, _)
CumWeight(weights, k) ==
    IF k = 0 THEN QInt(0) ELSE QAdd(CumWeight(weights, k - 1), weights[k])

\* x is the candidate the claim selects for the draw r: the first one, in list
\* order, whose cumulative weight is >= r, so that candidate k is selected for
\* the draws between the cumulative weights of k - 1 and of k
IsFirstReaching(x, candidates, weights, r) ==
    \E k \in 1..Len(candidates) :
        /\ x = candidates[k]
        /\ QLe(r, CumWeight(weights, k))
        /\ \A j \in 1..(k - 1) : ~QLe(r, CumWeight(weights, j))

\* the pick x made by choose, with the generator g, is the claimed one
PickAsClaimed(x, g, pool, last, last2, m, use) ==
    LET candidates == Candidates(pool, last, last2)
        weights == CandidateWeights(candidates, m, use)
        total == CumWeight(weights, Len(weights))
        r == QMul(Q(Stream(g.seed, g.pos), RngRes), total)
    IN  (candidates # <<>> /\ ~QLe(total, QInt(0))) =>
            IsFirstReaching(x, candidates, weights, r)

\* C24: for a non-empty candidate list with positive total weight and a draw
\* r in [0, total), weighted_choice returns the first candidate, in list
\* order, whose cumulative weight is >= r; so each candidate is selected for a
\* range of draws proportional to its weight.
C24_FirstCumulativeReachingDraw ==
    [][(pc = "loop" /\ Len(plan') = Len(plan) + 1) =>
          /\ PickAsClaimed(plan'[Len(plan')].Meat, rng, meat_pool,
                           last_meat, last_meat2,
                           args.taste_meat_map, args.use_taste_weights)
          /\ PickAsClaimed(plan'[Len(plan')].Veg, RngAdvance(rng), veg_pool,
                           last_veg, last_veg2,
                           args.taste_veg_map, args.use_taste_weights)]_vars

\* a first day picked with weighting on from three meats of weights 13/4,
\* 1/4 and 1, where the draw passed the first candidate
C24_Witness ==
    /\ pc = "loop"
    /\ Len(plan) = 1
    /\ args.use_taste_weights
    /\ Len(meat_pool) = 3
    /\ "Chicken (lean, cooked)" \in DOMAIN args.taste_meat_map
    /\ meat_pool[1] = "Chicken (lean, cooked)"
    /\ plan[1].Meat # meat_pool[1]

(***************************************************************************)
(* Pools with expansion allowed                                            *)
(***************************************************************************)
\* position of the first occurrence of x in s
FirstIndex(s, x) == CHOOSE i \in 1..Len(s) : s[i] = x /\ \A j \in 1..(i - 1) : s[j] # x

\* pool is src with every later duplicate removed
IsFirstOccurrences(pool, src) ==
    /\ Range(pool) = Range(src)
    /\ \A i, j \in 1..Len(pool) : pool[i] = pool[j] => i = j
    /\ \A i, j \in 1..Len(pool) :
           i < j => FirstIndex(src, pool[i]) < FirstIndex(src, pool[j])

\* the pool of category cat is as claimed
ExpandedPool(pool, pantry, recs, cat) ==
    /\ IsFirstOccurrences(pool, pantry \o recs \o filter_ingredients_by_category(cat))
    /\ \A i \in 1..Len(INGREDIENTS) :
           INGREDIENTS[i].category = cat => INGREDIENTS[i].name \in Range(pool)

\* C25: when expansion is allowed, the pool of a category is the concatenation
\* pantry ++ recommendations ++ full catalog of that category with every later
\* duplicate removed: each name occurs exactly once, at the position of its
\* first occurrence, and the pool contains every catalog ingredient of the
\* category.
C25_ExpandedPoolFirstSeen ==
    (pc # "idle" /\ args.allow_new) =>
        /\ ExpandedPool(meat_pool, args.pantry_meats, args.recommendations.Meat, "Meat")
        /\ ExpandedPool(veg_pool, args.pantry_vegs, args.recommendations.Veg, "Veg")
        /\ ExpandedPool(carb_pool, args.pantry_carbs, args.recommendations.Carb, "Carb")

\* pools built with expansion allowed from a pantry that lists two meats in
\* the reverse of the catalog's order, with recommendations that repeat them
C25_Witness ==
    /\ pc # "idle"
    /\ args.allow_new
    /\ Len(args.pantry_meats) = 2
    /\ args.recommendations.Meat # <<>>
    /\ Len(meat_pool) = 3
    /\ meat_pool[1] = args.pantry_meats[1]
    /\ meat_pool[1] # filter_ingredients_by_category("Meat")[1]
    /\ Len(carb_pool) = 2

(***************************************************************************)
(* Carbohydrate selection                                                  *)
(***************************************************************************)
\* the member of pool a uniform choice takes for the draw value v of 0..RngRes-1
UniformPick(pool, v) == pool[((v * Len(pool)) \div RngRes) + 1]

\* C26: carbohydrate selection is unconstrained: on every day the carb is
\* the uniform draw's member of the whole carb pool, whatever carbs were chosen
\* on the previous days and whatever the preference maps hold (the draw is the
\* third of the day, after those of the meat and of the veg); so the same carb
\* on consecutive, even on all 7, days is a reachable outcome with a pool of
\* two or more carbs.
C26_CarbUnconstrained ==
    [][(pc = "loop" /\ Len(plan') = Len(plan) + 1) =>
          /\ plan'[Len(plan')].Carb =
                 UniformPick(carb_pool, Stream(rng.seed, rng.pos + 2))
          /\ \A x \in Range(carb_pool) :
                 \E v \in 0..(RngRes - 1) : UniformPick(carb_pool, v) = x]_vars

\* a returned plan with the same carb on all 7 days, from a pool of two carbs,
\* with preference weighting on and learned scores present
C26_Witness ==
    /\ pc = "returned"
    /\ Len(carb_pool) = 2
    /\ Len(plan) = 7
    /\ \A d \in 1..7 : plan[d].Carb = plan[1].Carb
    /\ plan[1].Meat # plan[2].Meat
    /\ args.use_taste_weights
    /\ DOMAIN args.taste_meat_map # {}

(***************************************************************************)
(* Keys of the preference maps                                             *)
(***************************************************************************)
\* the names the log entries of dog d hold in column col
NamesLogged(d, col) ==
    {taste_log[i][col] : i \in {k \in 1..Len(taste_log) :
                                   /\ taste_log[k].dog_id = d
                                   /\ taste_log[k][col] # NoneVal}}

\* C27: a name is a key of the protein map returned for dog d exactly when at
\* least one log entry of dog d has that name in its Protein field (likewise
\* Veg and the veg map): a dog with no entries gets two empty maps, and an
\* entry with neither field populated adds a key to neither map and causes no
\* error.
C27_KeysAreLoggedNames ==
    \A d \in DogIds :
        LET maps == get_preference_maps(d)
        IN  /\ DOMAIN maps.protein = NamesLogged(d, "Protein")
            /\ DOMAIN maps.veg = NamesLogged(d, "Veg")
            /\ (\A i \in 1..Len(taste_log) : taste_log[i].dog_id # d) =>
                   (DOMAIN maps.protein = {} /\ DOMAIN maps.veg = {})

\* the active dog has an entry with neither field populated and an entry with
\* a protein only; the other dog has no entries
C27_Witness ==
    /\ Len(dogs) = 2
    /\ Len(taste_log) = 2
    /\ taste_log[1].dog_id = taste_log[2].dog_id
    /\ taste_log[1].Protein = NoneVal
    /\ taste_log[1].Veg = NoneVal
    /\ taste_log[2].Protein = "Chicken (lean, cooked)"
    /\ taste_log[2].Veg = NoneVal
    /\ DOMAIN get_preference_maps(taste_log[1].dog_id).protein = {"Chicken (lean, cooked)"}
    /\ DOMAIN get_preference_maps(taste_log[1].dog_id).veg = {}

(***************************************************************************)
(* The rotation selector called twice with different preference maps       *)
(***************************************************************************)
\* the call is made a second time with the same arguments except for the two
\* preference maps
CallWithOtherMaps ==
    /\ pc \in {"returned", "raised"}
    /\ first = <<>>
    /\ first' = <<[pc |-> pc, ret |-> ret]>>
    /\ \E t \in TasteChoices :
           /\ t.meat # args.taste_meat_map \/ t.veg # args.taste_veg_map
           /\ EnterCall([args EXCEPT !.taste_meat_map = t.meat,
                                     !.taste_veg_map = t.veg])
    /\ UNCHANGED <<ui, INGREDIENTS, sessVars, ratioVars, energyVars, planVars>>

NextMaps ==
    \/ pc = "idle" /\ \E a \in RotArgs, u \in UiChoices : Invoke(a, u)
    \/ LoopDay
    \/ Return
    \/ CallWithOtherMaps

SpecMaps == InitRotation /\ [][NextMaps]_vars

\* C29: when use_taste_weights is false, the rotation returned by
\* pick_rotation_smart does not depend on the preference maps: two calls that
\* differ only in taste_meat_map and taste_veg_map end the same way and return
\* the same plan.
C29_MapsIgnoredWhenWeightsOff ==
    (first # <<>> /\ Finished /\ ~args.use_taste_weights) =>
        (pc = first[1].pc /\ ret = first[1].ret)

\* with weighting off, a second call with scores for the meats and a
\* vegetable returned the plan of the first call, made with empty maps, from
\* a pool of three meats
C29_Witness ==
    /\ first # <<>>
    /\ pc = "returned"
    /\ ~args.use_taste_weights
    /\ args.taste_meat_map = MeatMapInput
    /\ Len(meat_pool) = 3
    /\ Len(veg_pool) = 2
    /\ ret = first[1].ret
    /\ ret[1][1].Meat # ret[1][3].Meat

(***************************************************************************)
(* Reaching every profile through the sidebar selector                     *)
(***************************************************************************)
\* active_dog_id after the option at position j of the selector, rendered for
\* the profiles ds, is chosen (lines 854-859)
ActiveAfterChoice(ds, j) ==
    GetActiveDogId(ds, LabelToId(ds, DogLabels(ds)[j]))

\* C30: every profile of the session can be made the active one: after any
\* sequence of create-profile and save-profile actions, for each profile there
\* is a choice in the sidebar profile selector after which active_dog_id is
\* that profile's id (including when two profiles have the same display
\* label).
C30_EveryProfileSelectable ==
    \A i \in 1..Len(dogs) :
        \E j \in 1..Len(dogs) : ActiveAfterChoice(dogs, j) = dogs[i].id

====
